---- MODULE Spec2Model ----
(***************************************************************************)
(* A model of brainbuilder's SONATA population splitting                   *)
(* (brainbuilder/utils/sonata/split_population.py).                        *)
(*                                                                         *)
(* Arrays (h5 datasets, numpy arrays, DataFrame columns) are sequences;    *)
(* Python's 0-based positions are kept in the slices and turned into       *)
(* 1-based positions only where a sequence is read.  A DataFrame used as   *)
(* an id mapping is the record [index, new_id] of two row-aligned columns. *)
(* An ordered dict is the record [keys, val]: the keys in insertion order  *)
(* and the function from key to value.  An h5 edges file is the function   *)
(* from the names of the populations under /edges to their contents.       *)
(***************************************************************************)
EXTENDS Integers, Sequences, FiniteSets, TLC

(***************************************************************************)
(* Bounds of the model.                                                    *)
(***************************************************************************)
\* most nodes of the input node population of a partition
MaxNodes == 2
\* most rows of the input edge population of a partition
MaxEdges == 2
\* the small chunk sizes tried beside the default one
MaxChunk == 2

\* the most edges a circuit of split_subcircuit holds in all its edge populations
MaxCircuitEdges == 1
\* most rows of the input edge population of _write_edges called on its own
MaxPairEdges == 1
\* stanzas per key of the networks of a descriptor drawn on its own
MaxStanzas == 2
\* most windows the parallel path of _isin hands to its workers
MaxWindows == 3

(***************************************************************************)
(* Program constants.                                                      *)
(***************************************************************************)
H5_READ_CHUNKSIZE == 500000000
GROUP_NAME == "0"
DELETED_EMPTY_EDGES_FILE == "DELETED_EMPTY_EDGES_FILE"

(***************************************************************************)
(* Generic helpers: sequences, dicts.                                      *)
(***************************************************************************)
Range(s) == {s[i] : i \in DOMAIN s}

Min(a, b) == IF a < b THEN a ELSE b

Max(a, b) == IF a < b THEN b ELSE a

SeqsUpTo(S, n) == UNION {[1..k -> S] : k \in 0..n}

IsInjective(s) == \A i, j \in DOMAIN s : s[i] = s[j] => i = j

\* np.max of a non-empty array
SeqMax(s) == CHOOSE m \in Range(s) : \A x \in Range(s) : x <= m

\* position (1-based) of the first row whose value is v
IndexOf(s, v) == CHOOSE i \in DOMAIN s : s[i] = v /\ \A j \in 1..(i - 1) : s[j] # v

\* np.arange(n)
arange(n) == [i \in 1..n |-> i - 1]

\* the ascending sequence of the members of a finite set of integers (np.unique, sorted ids)
RECURSIVE SortedSeq(_)
SortedSeq(S) ==
    IF S = {} THEN <<>>
    ELSE LET m == CHOOSE x \in S : \A y \in S : x <= y
         IN  <<m>> \o SortedSeq(S \ {m})

\* arr[sl] for a Python slice sl = slice(start, stop) with 0-based start, exclusive stop
Slice(arr, sl) == SubSeq(arr, sl.start + 1, Min(sl.stop, Len(arr)))

\* arr[mask] for a boolean mask as long as arr
MaskSelect(arr, mask) ==
    LET kept == SortedSeq({i \in DOMAIN arr : mask[i]})
    IN  [k \in DOMAIN kept |-> arr[kept[k]]]

\* mask1 & mask2
MaskAnd(m1, m2) == [i \in DOMAIN m1 |-> m1[i] /\ m2[i]]

\* np.any(mask)
MaskAny(mask) == \E i \in DOMAIN mask : mask[i]

EmptyDict == [keys |-> <<>>, val |-> <<>>]

\* d[k] = v on an ordered dict (a new key goes last, an old key keeps its place)
DictSet(d, k, v) ==
    [keys |-> IF k \in Range(d.keys) THEN d.keys ELSE Append(d.keys, k),
     val  |-> [x \in DOMAIN d.val \cup {k} |-> IF x = k THEN v ELSE d.val[x]]]

\* d.update(other) on ordered dicts
DictUpdate(d, other) ==
    LET fresh(k) == k \notin Range(d.keys)
    IN  [keys |-> d.keys \o SelectSeq(other.keys, fresh),
         val  |-> [k \in Range(d.keys) \cup Range(other.keys) |->
                     IF k \in Range(other.keys) THEN other.val[k] ELSE d.val[k]]]

\* f with key k set to v (h5 group / directory contents, unordered)
Put(f, k, v) == [x \in DOMAIN f \cup {k} |-> IF x = k THEN v ELSE f[x]]

\* f without key k
Drop(f, k) == [x \in DOMAIN f \ {k} |-> f[x]]

(***************************************************************************)
(* The chunk scanner: _create_chunked_slices, _isin.                       *)
(***************************************************************************)
RECURSIVE SlicesFrom_overlapping(_, _, _)
\* a mutant: each window also reads the first row of the next one
SlicesFrom_overlapping(start, length, chunk_size) ==
    IF start >= length THEN <<>>
    ELSE <<[start |-> start, stop |-> start + chunk_size + 1]>>
         \o SlicesFrom_overlapping(start + chunk_size, length, chunk_size)

RECURSIVE SlicesFrom(_, _, _)
\* the slices of range(start, length, chunk_size), each slice(start, start + chunk_size)
SlicesFrom(start, length, chunk_size) ==
    IF start >= length THEN <<>>
    ELSE <<[start |-> start, stop |-> start + chunk_size]>>
         \o SlicesFrom(start + chunk_size, length, chunk_size)

\* a mutant: only the windows that lie within the array whole
_create_chunked_slices_whole_windows(length, chunk_size) ==
    SlicesFrom(0, length - chunk_size + 1, chunk_size)

_create_chunked_slices(length, chunk_size) == SlicesFrom(0, length, chunk_size)

\* a mutant: every worker tests the rows of the first window
_isin_worker_first_window(elements, test_elements, sl, invert) ==
    LET part == Slice(elements, [start |-> 0, stop |-> sl.stop - sl.start])
    IN  [i \in DOMAIN part |-> (part[i] \in Range(test_elements)) # invert]

\* np.isin(elements[sl], test_elements, invert=invert)
_isin_worker(elements, test_elements, sl, invert) ==
    LET part == Slice(elements, sl)
    IN  [i \in DOMAIN part |-> (part[i] \in Range(test_elements)) # invert]

RECURSIVE Concatenate(_)
\* np.concatenate of a list of arrays
Concatenate(parts) ==
    IF parts = <<>> THEN <<>> ELSE Head(parts) \o Concatenate(Tail(parts))

\* _isin under the read chunk size h5_chunksize that _h5_get_read_chunk_size returns
_isin(elements, test_elements, invert, h5_chunksize) ==
    IF Len(elements) < h5_chunksize
    THEN [i \in DOMAIN elements |-> (elements[i] \in Range(test_elements)) # invert]
    ELSE LET chunk_size == Max(500, h5_chunksize \div 500)
             slices == _create_chunked_slices(Len(elements), chunk_size)
         IN  Concatenate([k \in DOMAIN slices |->
                            _isin_worker(elements, test_elements, slices[k], invert)])

(***************************************************************************)
(* Names.                                                                  *)
(***************************************************************************)
\* a mutant: the synapse type suffix also on a pair of one population
_get_population_name_always_suffixed(src, dst) ==
    src \o "__" \o dst \o "__" \o "chemical"

_get_population_name(src, dst) ==
    IF src = dst THEN src ELSE src \o "__" \o dst \o "__" \o "chemical"

_get_edge_file_name(new_pop_name) == "edges_" \o new_pop_name \o ".h5"

_get_node_file_name(new_pop_name) == "nodes_" \o new_pop_name \o ".h5"

\* os.path.join(a, b) for a relative b
PathJoin(a, b) == a \o "/" \o b

(***************************************************************************)
(* Structural checks of an input container.  A raised exception is the     *)
(* record field err; "none" means the call returned.                       *)
(***************************************************************************)
\* a mutant: only an empty container is refused
_get_unique_population_first(parent) ==
    IF Cardinality(DOMAIN parent) < 1
    THEN [err |-> "ValueError", name |-> ""]
    ELSE [err |-> "none", name |-> CHOOSE n \in DOMAIN parent : TRUE]

\* parent: the function from population name to population; list(parent) has one name
_get_unique_population(parent) ==
    IF Cardinality(DOMAIN parent) # 1
    THEN [err |-> "ValueError", name |-> ""]
    ELSE [err |-> "none", name |-> CHOOSE n \in DOMAIN parent : TRUE]

\* parent: an edge population; parent.groups is the function from group name to group
_get_unique_group(parent) ==
    IF GROUP_NAME \notin DOMAIN parent.groups
    THEN [err |-> "ValueError"]
    ELSE [err |-> "none", group |-> parent.groups[GROUP_NAME]]

(***************************************************************************)
(* The edge attribute copier.  A group is [datasets, subgroups]: datasets  *)
(* maps a dataset name to its column, subgroups maps a subgroup name to    *)
(* the function from dataset name to column.                               *)
(***************************************************************************)
\* the empty appendable datasets of new_group, named as in orig_group
_init_edge_group(orig_group) ==
    IF \E name \in DOMAIN orig_group.subgroups : name # "dynamics_params"
    THEN [err |-> "ValueError"]
    ELSE [err |-> "none",
          group |-> [datasets  |-> [name \in DOMAIN orig_group.datasets |-> <<>>],
                     subgroups |-> [name \in DOMAIN orig_group.subgroups |->
                                      [k \in DOMAIN orig_group.subgroups[name] |-> <<>>]]]]

\* a mutant: the window is appended whole, attr[sl]
_populate_edge_group_unmasked(orig_group, new_group, sl, mask) ==
    [datasets  |-> [name \in DOMAIN orig_group.datasets |->
                      new_group.datasets[name] \o Slice(orig_group.datasets[name], sl)],
     subgroups |-> [name \in DOMAIN orig_group.subgroups |->
                      [k \in DOMAIN orig_group.subgroups[name] |->
                         new_group.subgroups[name][k]
                         \o Slice(orig_group.subgroups[name][k], sl)]]]

\* append attr[sl][mask] to every dataset of new_group
_populate_edge_group(orig_group, new_group, sl, mask) ==
    [datasets  |-> [name \in DOMAIN orig_group.datasets |->
                      new_group.datasets[name]
                      \o MaskSelect(Slice(orig_group.datasets[name], sl), mask)],
     subgroups |-> [name \in DOMAIN orig_group.subgroups |->
                      [k \in DOMAIN orig_group.subgroups[name] |->
                         new_group.subgroups[name][k]
                         \o MaskSelect(Slice(orig_group.subgroups[name][k], sl), mask)]]]

\* mapping.loc[ids].new_id for ids that are all in mapping.index
Loc(mapping, ids) ==
    [i \in DOMAIN ids |-> mapping.new_id[IndexOf(mapping.index, ids[i])]]

\* one pass of the loop body of _copy_edge_attributes, for the window sl
CopyWindow(orig_edges, orig_group, new_edges, sl, src_mapping, dst_mapping, h5_chunksize) ==
    LET sgids == Slice(orig_edges.source_node_id, sl)
        tgids == Slice(orig_edges.target_node_id, sl)
        sgid_mask == _isin(sgids, src_mapping.index, FALSE, h5_chunksize)
        tgid_mask == _isin(tgids, dst_mapping.index, FALSE, h5_chunksize)
        mask == MaskAnd(sgid_mask, tgid_mask)
    IN  IF MaskAny(mask)
        THEN [new_edges EXCEPT
                !.source_node_id = @ \o Loc(src_mapping, MaskSelect(sgids, mask)),
                !.target_node_id = @ \o Loc(dst_mapping, MaskSelect(tgids, mask)),
                !.groups = [g \in {GROUP_NAME} |->
                              _populate_edge_group(orig_group, @[GROUP_NAME], sl, mask)]]
        ELSE new_edges

RECURSIVE CopyWindows(_, _, _, _, _, _, _)
\* the loop of _copy_edge_attributes over the windows still to read
CopyWindows(slices, orig_edges, orig_group, new_edges, src_mapping, dst_mapping, h5_chunksize) ==
    IF slices = <<>> THEN new_edges
    ELSE CopyWindows(Tail(slices), orig_edges, orig_group,
                     CopyWindow(orig_edges, orig_group, new_edges, Head(slices),
                                src_mapping, dst_mapping, h5_chunksize),
                     src_mapping, dst_mapping, h5_chunksize)

\* the bookkeeping columns of a finished population
_finalize_edges(new_edges) ==
    LET edge_count == Len(new_edges.source_node_id)
    IN  [new_edges EXCEPT !.edge_type_id = [i \in 1..edge_count |-> -1],
                          !.edge_group_id = [i \in 1..edge_count |-> 0],
                          !.edge_group_index = arange(edge_count)]

\* h5_read_chunk_size is <<>> for None and <<c>> for a given size; env_chunksize is
\* what _h5_get_read_chunk_size returns.  The result is [err, h5out].
_copy_edge_attributes(h5in, h5out, src_node_name, dst_node_name, src_edge_name, dst_edge_name, src_mapping, dst_mapping, h5_read_chunk_size, env_chunksize) ==
    LET chunk == IF h5_read_chunk_size = <<>> THEN env_chunksize
                 ELSE h5_read_chunk_size[1]
        orig_edges == h5in[src_edge_name]
        unique == _get_unique_group(orig_edges)
    IN  IF unique.err # "none" THEN [err |-> unique.err, h5out |-> h5out]
        ELSE IF dst_edge_name \in DOMAIN h5out THEN [err |-> "ValueError", h5out |-> h5out]
        ELSE
        LET orig_group == unique.group
            init == _init_edge_group(orig_group)
            created == [source_node_id |-> <<>>, target_node_id |-> <<>>,
                        src_pop |-> src_node_name, dst_pop |-> dst_node_name,
                        groups |-> [g \in {GROUP_NAME} |->
                                      [datasets |-> <<>>, subgroups |-> <<>>]],
                        edge_type_id |-> <<>>, edge_group_id |-> <<>>,
                        edge_group_index |-> <<>>, indices |-> <<>>]
        IN  IF init.err # "none"
            THEN [err |-> init.err, h5out |-> Put(h5out, dst_edge_name, created)]
            ELSE
            LET new_edges == [created EXCEPT !.groups = [g \in {GROUP_NAME} |-> init.group]]
                slices == _create_chunked_slices(Len(orig_edges.source_node_id), chunk)
                copied == CopyWindows(slices, orig_edges, orig_group, new_edges,
                                      src_mapping, dst_mapping, env_chunksize)
            IN  [err |-> "none",
                 h5out |-> Put(h5out, dst_edge_name, _finalize_edges(copied))]

\* a mutant: the node counts are the numbers of distinct ids written
_get_node_counts_distinct(h5out, new_pop_name) ==
    LET new_edges == h5out[new_pop_name]
    IN  <<Len(new_edges.source_node_id), Cardinality(Range(new_edges.source_node_id)),
          Cardinality(Range(new_edges.target_node_id))>>

\* <<edge_count, source_node_count, target_node_count>>
_get_node_counts(h5out, new_pop_name) ==
    LET new_edges == h5out[new_pop_name]
        edge_count == Len(new_edges.source_node_id)
    IN  IF edge_count > 0
        THEN <<edge_count, SeqMax(new_edges.source_node_id) + 1,
               SeqMax(new_edges.target_node_id) + 1>>
        ELSE <<0, 0, 0>>

\* libsonata's write_indices on a closed file: the population records the node counts
\* its two range indices were built for
_write_indexes(file, new_pop_name, source_node_count, target_node_count) ==
    [file EXCEPT ![new_pop_name].indices = <<source_node_count, target_node_count>>]

\* a mutant: only too many written edges are a mismatch
_check_all_edges_used_too_many(h5in, written_edges) ==
    LET unique == _get_unique_population(h5in)
    IN  IF unique.err # "none" THEN unique.err
        ELSE IF Len(h5in[unique.name].source_node_id) < written_edges THEN "RuntimeError"
        ELSE "none"

\* _check_all_edges_used: "none", or the exception raised
_check_all_edges_used(h5in, written_edges) ==
    LET unique == _get_unique_population(h5in)
    IN  IF unique.err # "none" THEN unique.err
        ELSE IF Len(h5in[unique.name].source_node_id) # written_edges THEN "RuntimeError"
        ELSE "none"

(***************************************************************************)
(* Partitions, the node writer and the id mapper.  A node table is the     *)
(* DataFrame [index, mtype]: the old ids and the attribute the split is on.*)
(***************************************************************************)
\* the values of the attribute, in the ascending order pandas' groupby yields its keys
AttributeValues == <<"L2_X", "L6_Y">>

\* _load_sonata_nodes: the node table of a nodes file, 0-based ids
_load_sonata_nodes(nodes_file) ==
    [index |-> arange(Len(nodes_file)), mtype |-> nodes_file]

\* the rows of df at the given (1-based) positions, in that order
Rows(df, positions) ==
    [index |-> [k \in DOMAIN positions |-> df.index[positions[k]]],
     mtype |-> [k \in DOMAIN positions |-> df.mtype[positions[k]]]]

\* a mutant: the node table keeps the 1-based ids of the cell collection
_split_population_by_attribute_one_based(nodes_file) ==
    LET df == [index |-> [i \in 1..Len(nodes_file) |-> i], mtype |-> nodes_file]
        present(v) == v \in Range(df.mtype)
    IN  [keys |-> SelectSeq(AttributeValues, present),
         val  |-> [v \in Range(df.mtype) |->
                     Rows(df, SortedSeq({i \in DOMAIN df.mtype : df.mtype[i] = v}))]]

\* dict(tuple(nodes.groupby(attribute))): one group per distinct value, keys ascending,
\* the rows of a group in their original order
_split_population_by_attribute(nodes_file) ==
    LET df == _load_sonata_nodes(nodes_file)
        present(v) == v \in Range(df.mtype)
    IN  [keys |-> SelectSeq(AttributeValues, present),
         val  |-> [v \in Range(df.mtype) |->
                     Rows(df, SortedSeq({i \in DOMAIN df.mtype : df.mtype[i] = v}))]]

\* {node_set_name: nodes.loc[ids]} for the ids the node set materializes to
_split_population_by_node_set(nodes_file, node_set_name, ids) ==
    LET df == _load_sonata_nodes(nodes_file)
    IN  [keys |-> <<node_set_name>>,
         val  |-> [n \in {node_set_name} |->
                     Rows(df, [k \in DOMAIN ids |-> IndexOf(df.index, ids[k])])]]

\* a mutant: the rows are saved in reverse order
_save_sonata_nodes_reversed(files, nodes_path, df, population_name) ==
    Put(files, nodes_path,
        Put(IF nodes_path \in DOMAIN files THEN files[nodes_path] ELSE <<>>,
            population_name,
            [mtype |-> [k \in DOMAIN df.mtype |-> df.mtype[Len(df.mtype) + 1 - k]]]))

\* _save_sonata_nodes after df.reset_index(drop=True): the population, appended to the
\* file, holds the attribute rows; the row at position k + 1 is the node with new id k
_save_sonata_nodes(files, nodes_path, df, population_name) ==
    Put(files, nodes_path,
        Put(IF nodes_path \in DOMAIN files THEN files[nodes_path] ELSE <<>>,
            population_name, [mtype |-> df.mtype]))

RECURSIVE WriteNodesFrom(_, _, _, _)
\* the loop of _write_nodes over the populations still to write
WriteNodesFrom(names, files, split_nodes, population_to_path) ==
    IF names = <<>> THEN files
    ELSE LET new_population == Head(names)
             nodes_path == IF new_population \in DOMAIN population_to_path
                           THEN population_to_path[new_population]
                           ELSE _get_node_file_name(new_population)
         IN  WriteNodesFrom(Tail(names),
                            _save_sonata_nodes(files, nodes_path,
                                               split_nodes.val[new_population],
                                               new_population),
                            split_nodes, population_to_path)

\* _write_nodes: the node files of the output directory afterwards
_write_nodes(files, split_nodes, population_to_path) ==
    WriteNodesFrom(split_nodes.keys, files, split_nodes, population_to_path)

\* the paths _write_nodes returns, population -> path
WrittenNodePaths(split_nodes, population_to_path) ==
    [n \in Range(split_nodes.keys) |->
       IF n \in DOMAIN population_to_path THEN population_to_path[n]
       ELSE _get_node_file_name(n)]

\* a mutant: the new ids are not renumbered from 0
_get_node_id_mapping_not_renumbered(split_nodes) ==
    [keys |-> split_nodes.keys,
     val  |-> [n \in Range(split_nodes.keys) |->
                 [index  |-> split_nodes.val[n].index,
                  new_id |-> split_nodes.val[n].index]]]

\* _get_node_id_mapping: population -> DataFrame with index old ids and column new_id
_get_node_id_mapping(split_nodes) ==
    [keys |-> split_nodes.keys,
     val  |-> [n \in Range(split_nodes.keys) |->
                 [index  |-> split_nodes.val[n].index,
                  new_id |-> arange(Len(split_nodes.val[n].index))]]]

\* the k-th (0-based) pair of itertools.product(keys, keys)
ProductPair(keys, k) ==
    [src |-> keys[(k \div Len(keys)) + 1], dst |-> keys[(k % Len(keys)) + 1]]

\* a mutant: every pair gets an edges entry, whatever the files on disk
_write_circuit_config_every_pair(files, split_nodes) ==
    LET keys == split_nodes.keys
        n == Len(keys)
        pairs == [k \in 1..(n * n) |-> ProductPair(keys, k - 1)]
        name(k) == _get_population_name(pairs[k].src, pairs[k].dst)
        nodes_at == SortedSeq({k \in 1..(n * n) : pairs[k].src = pairs[k].dst})
    IN  [written |-> FALSE,
         nodes |-> [i \in DOMAIN nodes_at |->
                      PathJoin("$BASE_DIR", _get_node_file_name(name(nodes_at[i])))],
         edges |-> [k \in 1..(n * n) |->
                      PathJoin("$BASE_DIR", _get_edge_file_name(name(k)))]]

\* _write_circuit_config: the descriptor written, given the edge files on disk
_write_circuit_config(files, split_nodes) ==
    LET keys == split_nodes.keys
        n == Len(keys)
        pairs == [k \in 1..(n * n) |-> ProductPair(keys, k - 1)]
        name(k) == _get_population_name(pairs[k].src, pairs[k].dst)
        nodes_at == SortedSeq({k \in 1..(n * n) : pairs[k].src = pairs[k].dst})
        edges_at == SortedSeq({k \in 1..(n * n) : _get_edge_file_name(name(k)) \in DOMAIN files})
    IN  [written |-> FALSE,
         nodes |-> [i \in DOMAIN nodes_at |->
                      PathJoin("$BASE_DIR", _get_node_file_name(name(nodes_at[i])))],
         edges |-> [i \in DOMAIN edges_at |->
                      PathJoin("$BASE_DIR", _get_edge_file_name(name(edges_at[i])))]]

(***************************************************************************)
(* Inputs.  The per-edge attribute values are the row's original position  *)
(* (delay) and its negation (dynamics_params/u), so that an output row     *)
(* tells which input row it was copied from.                               *)
(***************************************************************************)
InGroup(n) ==
    [datasets  |-> [d \in {"delay"} |-> [i \in 1..n |-> i]],
     subgroups |-> [g \in {"dynamics_params"} |-> [k \in {"u"} |-> [i \in 1..n |-> -i]]]]

\* an input edge population with the given groups, all carrying the same columns
InPopulation(src_pop, dst_pop, sgids, tgids, group_names) ==
    [source_node_id |-> sgids, target_node_id |-> tgids,
     src_pop |-> src_pop, dst_pop |-> dst_pop,
     groups |-> [g \in group_names |-> InGroup(Len(sgids))],
     edge_type_id |-> [i \in DOMAIN sgids |-> -1],
     edge_group_id |-> [i \in DOMAIN sgids |-> 0],
     edge_group_index |-> arange(Len(sgids)),
     indices |-> <<>>]

\* the source (target) ids of a sequence of <<source, target>> pairs
Sources(edges) == [i \in DOMAIN edges |-> edges[i][1]]

Targets(edges) == [i \in DOMAIN edges |-> edges[i][2]]

\* the container layouts an input edges file is tried with
Layouts == {"single", "no_population", "two_populations", "no_group", "two_groups"}

\* an edges file of population "default" with the given rows, laid out as named
EdgesFile(layout, edges) ==
    LET pop(groups) == InPopulation("default", "default", Sources(edges), Targets(edges), groups)
    IN  CASE layout = "single"          -> [n \in {"default"} |-> pop({"0"})]
          [] layout = "no_population"   -> <<>>
          [] layout = "two_populations" -> [n \in {"default", "other"} |-> pop({"0"})]
          [] layout = "no_group"        -> [n \in {"default"} |-> pop({})]
          [] layout = "two_groups"      -> [n \in {"default"} |-> pop({"0", "1"})]

\* tests/data/sonata/split_population/nodes.h5: mtypes of nodes 0, 1, 2
TestNodes == <<"L2_X", "L6_Y", "L6_Y">>

\* tests/data/sonata/split_population/edges.h5: source [2, 0, 0, 2], target [0, 1, 1, 1]
TestEdges == <<(<<2, 0>>), (<<0, 1>>), (<<0, 1>>), (<<2, 1>>)>>

\* the three-node ring 0 -> 1, 1 -> 2, 2 -> 0
RingEdges == <<(<<0, 1>>), (<<1, 2>>), (<<2, 0>>)>>

\* the edges of the test and one more, from a node the nodes file of the test does not
\* hold: an edges file that does not go with the nodes file
DanglingEdges == TestEdges \o <<(<<3, 0>>)>>

\* edges whose second window of two holds a source seen in the first window beside a
\* source not seen yet
RevisitEdges == <<(<<1, 0>>), (<<1, 0>>), (<<0, 0>>), (<<1, 0>>)>>

\* the node set name handed to simple_split_subcircuit
node_set_name == "L6_Y"

NodeIds == 0..(MaxNodes - 1)

\* the chunk sizes the environment may set: small ones and the default
ChunkSizes == (1..MaxChunk) \cup {H5_READ_CHUNKSIZE}

\* the ascending id lists a node set can materialize to on n nodes
NodeSetIds(n) == {SortedSeq(S) : S \in SUBSET (0..(n - 1))}

(***************************************************************************)
(* State of split_population and simple_split_subcircuit.                  *)
(***************************************************************************)
VARIABLES
    entry,              \* the function called: "split_population" or "simple_split_subcircuit"
    nodes_file,         \* the input nodes file: the attribute of node 0, 1, ...
    node_set_ids,       \* what the node set materializes to (simple_split_subcircuit)
    edges_file,         \* the input edges file
    pc,                 \* where the call is
    split_populations,  \* the partition: new population -> node table
    id_mapping,         \* new population -> id mapping
    node_files,         \* the node files of the output directory
    edge_files,         \* the edge files of the output directory
    pairs_done,         \* how many pairs of itertools.product(id_mapping, id_mapping) are done
    written_edges,      \* the counter of _write_edges
    error,              \* the exception the call ended with, or "none"
    circuit_config,     \* the circuit_config.json of the output directory
    chunk_size,         \* the window size of the chunked loop that is running
    windows_left,       \* the windows the chunked loop has still to read
    wanted_src_ids,     \* _get_subcircuit_external_ids: the source ids asked for
    wanted_dst_ids,     \* _get_subcircuit_external_ids: the target ids asked for
    ret,                \* _get_subcircuit_external_ids: the mapping built so far
    circuit,            \* split_subcircuit: the circuit the descriptor describes
    create_external,    \* split_subcircuit: the flag, once it has been read
    do_virtual,         \* split_subcircuit: the flag, once it has been read
    new_node_files,     \* split_subcircuit: node population -> path written
    new_edge_files,     \* split_subcircuit: edge population -> path written
    mapping_file,       \* split_subcircuit: id_mapping.json
    node_sets_file      \* split_subcircuit: node_sets.json

vars == <<entry, nodes_file, node_set_ids, edges_file, pc, split_populations, id_mapping,
          node_files, edge_files, pairs_done, written_edges, error, circuit_config,
          chunk_size, windows_left, wanted_src_ids, wanted_dst_ids, ret,
          circuit, create_external, do_virtual, new_node_files, new_edge_files,
          mapping_file, node_sets_file>>

inputs == <<entry, nodes_file, node_set_ids, edges_file>>

\* the state of a chunked loop that is run window by window
scan == <<chunk_size, windows_left, wanted_src_ids, wanted_dst_ids, ret>>

\* ret = None
None == [none |-> TRUE, index |-> <<>>, new_id |-> <<>>]

NoScan ==
    /\ chunk_size = 0
    /\ windows_left = <<>>
    /\ wanted_src_ids = <<>>
    /\ wanted_dst_ids = <<>>
    /\ ret = None

\* the state of a run of split_subcircuit
subcircuit == <<circuit, create_external, do_virtual, new_node_files, new_edge_files,
                mapping_file, node_sets_file>>

NoSubcircuit ==
    /\ circuit = <<>>
    /\ create_external = <<>>
    /\ do_virtual = <<>>
    /\ new_node_files = EmptyDict
    /\ new_edge_files = EmptyDict
    /\ mapping_file = <<>>
    /\ node_sets_file = <<>>

NoConfig == [written |-> FALSE, nodes |-> <<>>, edges |-> <<>>]

\* a mutant: the subset mode checks the edge count too
expect_to_use_all_edges_always == TRUE

\* the expect_to_use_all_edges argument of the entry's call of _write_edges, and its
\* default in a call of _write_edges itself
expect_to_use_all_edges == entry \in {"split_population", "_write_edges"}

\* the inputs enumerated within the bounds
BoundedInputs ==
    /\ entry \in {"split_population", "simple_split_subcircuit"}
    /\ nodes_file \in SeqsUpTo(Range(AttributeValues), MaxNodes)
    /\ node_set_ids \in IF entry = "simple_split_subcircuit"
                        THEN NodeSetIds(Len(nodes_file)) ELSE {<<>>}
    /\ edges_file \in {EdgesFile("single", e) : e \in SeqsUpTo(NodeIds \X NodeIds, MaxEdges)}

\* the inputs of the repository's tests and of the documented examples, in every layout,
\* and the edges of which one has no node
FixtureInputs ==
    /\ entry \in {"split_population", "simple_split_subcircuit"}
    /\ nodes_file = TestNodes
    /\ node_set_ids \in IF entry = "simple_split_subcircuit"
                        THEN {<<1, 2>>, <<0, 1>>} ELSE {<<>>}
    /\ edges_file \in {EdgesFile(l, e) : l \in Layouts, e \in {TestEdges, RingEdges}}
                        \cup {EdgesFile("single", DanglingEdges)}

Init ==
    /\ BoundedInputs \/ FixtureInputs
    /\ pc = "start"
    /\ split_populations = EmptyDict
    /\ id_mapping = EmptyDict
    /\ node_files = <<>>
    /\ edge_files = <<>>
    /\ pairs_done = 0
    /\ written_edges = 0
    /\ error = "none"
    /\ circuit_config = NoConfig
    /\ NoScan
    /\ NoSubcircuit

\* split_population, line 397
SplitByAttribute ==
    /\ pc = "start"
    /\ entry = "split_population"
    /\ split_populations' = _split_population_by_attribute(nodes_file)
    /\ pc' = "write_nodes"
    /\ UNCHANGED <<inputs, subcircuit, scan, id_mapping, node_files, edge_files, pairs_done, written_edges,
                   error, circuit_config>>

\* simple_split_subcircuit, line 427
SplitByNodeSet ==
    /\ pc = "start"
    /\ entry = "simple_split_subcircuit"
    /\ split_populations' = _split_population_by_node_set(nodes_file, node_set_name, node_set_ids)
    /\ pc' = "write_nodes"
    /\ UNCHANGED <<inputs, subcircuit, scan, id_mapping, node_files, edge_files, pairs_done, written_edges,
                   error, circuit_config>>

\* _write_nodes(output, split_populations)
WriteNodes ==
    /\ pc = "write_nodes"
    /\ node_files' = _write_nodes(node_files, split_populations, <<>>)
    /\ pc' = "id_mapping"
    /\ UNCHANGED <<inputs, subcircuit, scan, split_populations, id_mapping, edge_files, pairs_done,
                   written_edges, error, circuit_config>>

\* id_mapping = _get_node_id_mapping(split_populations)
GetNodeIdMapping ==
    /\ pc = "id_mapping"
    /\ id_mapping' = _get_node_id_mapping(split_populations)
    /\ pc' = "write_edges"
    /\ UNCHANGED <<inputs, subcircuit, scan, split_populations, node_files, edge_files, pairs_done,
                   written_edges, error, circuit_config>>

\* one pass of the loop of _write_edges: the next pair of new populations
WriteEdgesPair ==
    /\ pc = "write_edges"
    /\ pairs_done < Len(id_mapping.keys) * Len(id_mapping.keys)
    /\ \E env_chunksize \in ChunkSizes :
         LET pair == ProductPair(id_mapping.keys, pairs_done)
             edge_pop_name == _get_population_name(pair.src, pair.dst)
             edge_file_name == _get_edge_file_name(edge_pop_name)
             \* h5py.File(edge_file_name, 'w'): created, or truncated
             opened == Put(edge_files, edge_file_name, <<>>)
             unique == _get_unique_population(edges_file)
             copy == _copy_edge_attributes(edges_file, <<>>, pair.src, pair.dst,
                                           unique.name, edge_pop_name,
                                           id_mapping.val[pair.src],
                                           id_mapping.val[pair.dst], <<>>, env_chunksize)
         IN  IF unique.err # "none"
             THEN /\ edge_files' = opened
                  /\ error' = unique.err
                  /\ pc' = "failed"
                  /\ UNCHANGED <<pairs_done, written_edges>>
             ELSE IF copy.err # "none"
             THEN /\ edge_files' = Put(edge_files, edge_file_name, copy.h5out)
                  /\ error' = copy.err
                  /\ pc' = "failed"
                  /\ UNCHANGED <<pairs_done, written_edges>>
             ELSE LET counts == _get_node_counts(copy.h5out, edge_pop_name)
                  IN  /\ edge_files' =
                           IF counts[1] > 0
                           THEN Put(edge_files, edge_file_name,
                                    _write_indexes(copy.h5out, edge_pop_name,
                                                   counts[2], counts[3]))
                           ELSE Drop(opened, edge_file_name)
                      /\ written_edges' = written_edges + counts[1]
                      /\ pairs_done' = pairs_done + 1
                      /\ UNCHANGED <<pc, error>>
    /\ UNCHANGED <<inputs, subcircuit, scan, split_populations, id_mapping, node_files, circuit_config>>

\* a mutant: the consistency check runs as soon as one pair has been written
CheckAllEdgesUsed_after_first_pair ==
    /\ pc = "write_edges"
    /\ pairs_done >= Min(1, Len(id_mapping.keys) * Len(id_mapping.keys))
    /\ LET raised == IF expect_to_use_all_edges
                     THEN _check_all_edges_used(edges_file, written_edges)
                     ELSE "none"
       IN  /\ error' = raised
           /\ pc' = IF raised # "none" THEN "failed"
                    ELSE IF entry = "split_population" THEN "circuit_config"
                    ELSE "done"
    /\ UNCHANGED <<inputs, subcircuit, scan, split_populations, id_mapping, node_files, edge_files,
                   pairs_done, written_edges, circuit_config>>

\* the end of _write_edges: the consistency check of the exhaustive mode
CheckAllEdgesUsed ==
    /\ pc = "write_edges"
    /\ pairs_done = Len(id_mapping.keys) * Len(id_mapping.keys)
    /\ LET raised == IF expect_to_use_all_edges
                     THEN _check_all_edges_used(edges_file, written_edges)
                     ELSE "none"
       IN  /\ error' = raised
           /\ pc' = IF raised # "none" THEN "failed"
                    ELSE IF entry = "split_population" THEN "circuit_config"
                    ELSE "done"
    /\ UNCHANGED <<inputs, subcircuit, scan, split_populations, id_mapping, node_files, edge_files,
                   pairs_done, written_edges, circuit_config>>

\* _write_circuit_config(output, split_populations)
WriteCircuitConfig ==
    /\ pc = "circuit_config"
    /\ circuit_config' = [_write_circuit_config(edge_files, split_populations)
                            EXCEPT !.written = TRUE]
    /\ pc' = "done"
    /\ UNCHANGED <<inputs, subcircuit, scan, split_populations, id_mapping, node_files, edge_files,
                   pairs_done, written_edges, error>>

Next ==
    \/ SplitByAttribute
    \/ SplitByNodeSet
    \/ WriteNodes
    \/ GetNodeIdMapping
    \/ WriteEdgesPair
    \/ CheckAllEdgesUsed
    \/ WriteCircuitConfig

Spec == Init /\ [][Next]_vars

(***************************************************************************)
(* Properties of split_population and simple_split_subcircuit (Spec).      *)
(***************************************************************************)
\* the id mapping has been built
MappingBuilt == pc \in {"write_edges", "circuit_config", "done", "failed"}

\* the call returned normally from _write_edges
EdgesWritten == pc \in {"circuit_config", "done"}

\* the rows of the (first) population of the input edges file; none when it has no population
InputRows ==
    IF DOMAIN edges_file = {} THEN InPopulation("", "", <<>>, <<>>, {"0"})
    ELSE edges_file[CHOOSE n \in DOMAIN edges_file : TRUE]

\* the number of edges of population name in the output edge file of that name
OutputEdgeCount(name) ==
    LET f == "edges_" \o name \o ".h5"
    IN  IF f \in DOMAIN edge_files /\ name \in DOMAIN edge_files[f]
        THEN Len(edge_files[f][name].source_node_id) ELSE 0

RECURSIVE SumOver(_, _)
\* the sum of count[x] over the members x of S
SumOver(S, count) ==
    IF S = {} THEN 0
    ELSE LET x == CHOOSE y \in S : TRUE IN count[x] + SumOver(S \ {x}, count)

\* the name the claims give the edge population of an ordered pair
PairName(src, dst) == IF src = dst THEN src ELSE src \o "__" \o dst \o "__chemical"

\* C1: for every new population of a partition, the id mapping is a bijection from the
\* group's old ids onto 0..n-1, and the i-th old id of the group gets new id i
C1_MappingBijection ==
    MappingBuilt =>
      \A name \in Range(split_populations.keys) :
        LET group == split_populations.val[name].index
            m == id_mapping.val[name]
            n == Len(group)
            new(old) == m.new_id[CHOOSE i \in DOMAIN m.index : m.index[i] = old]
        IN  /\ Range(id_mapping.keys) = Range(split_populations.keys)
            /\ Range(m.index) = Range(group)
            /\ Len(m.index) = n /\ Len(m.new_id) = n
            /\ \A i, j \in 1..n : m.index[i] = m.index[j] => i = j
            /\ {new(old) : old \in Range(group)} = 0..(n - 1)
            /\ \A a, b \in Range(group) : new(a) = new(b) => a = b
            /\ \A i \in 1..n : new(group[i]) = i - 1

\* C1's case: a group of two nodes whose old ids are not their new ids
C1_Witness ==
    /\ MappingBuilt
    /\ \E name \in Range(id_mapping.keys) :
         /\ Len(id_mapping.val[name].index) >= 2
         /\ id_mapping.val[name].index[1] # 0

C6_SubsetSplit ==
    entry = "simple_split_subcircuit" =>
      /\ error # "RuntimeError"
      /\ pc = "done" =>
           LET f == "edges_" \o node_set_name \o ".h5"
               wanted == Range(node_set_ids)
               rows == InputRows
               kept == SortedSeq({i \in DOMAIN rows.source_node_id :
                                    /\ rows.source_node_id[i] \in wanted
                                    /\ rows.target_node_id[i] \in wanted})
               new(old) == (CHOOSE k \in DOMAIN node_set_ids : node_set_ids[k] = old) - 1
           IN  /\ error = "none"
               /\ DOMAIN edge_files \subseteq {f}
               /\ kept = <<>> <=> DOMAIN edge_files = {}
               /\ kept # <<>> =>
                    LET out == edge_files[f][node_set_name]
                    IN  /\ DOMAIN edge_files[f] = {node_set_name}
                        /\ out.source_node_id =
                             [k \in DOMAIN kept |-> new(rows.source_node_id[kept[k]])]
                        /\ out.target_node_id =
                             [k \in DOMAIN kept |-> new(rows.target_node_id[kept[k]])]
                        /\ out.groups["0"].datasets["delay"] = kept
               /\ (rows.source_node_id = <<0, 1, 2>> /\ rows.target_node_id = <<1, 2, 0>>
                   /\ node_set_ids = <<0, 1>> /\ DOMAIN rows.groups = {"0"}) =>
                    /\ edge_files[f][node_set_name].source_node_id = <<0>>
                    /\ edge_files[f][node_set_name].target_node_id = <<1>>

\* C6's case: the ring split by {0, 1} is done
C6_Witness ==
    /\ entry = "simple_split_subcircuit"
    /\ pc = "done"
    /\ edges_file = EdgesFile("single", RingEdges)
    /\ node_set_ids = <<0, 1>>
    /\ Len(nodes_file) = 3

\* C7: splitting by an attribute puts every node in exactly one group, the one keyed by
\* its attribute value, with one group per distinct value and the nodes of a group in
\* original order; mtypes [L2_X, L6_Y, L6_Y] give L2_X = {0 -> 0}, L6_Y = {1 -> 0, 2 -> 1}
C7_AttributeSplit ==
    (entry = "split_population" /\ pc # "start") =>
      LET keys == split_populations.keys
          group(k) == split_populations.val[k].index
      IN  /\ Range(keys) = Range(nodes_file)
          /\ \A i, j \in DOMAIN keys : keys[i] = keys[j] => i = j
          /\ \A id \in 0..(Len(nodes_file) - 1) : \A k \in Range(keys) :
               (\E i \in DOMAIN group(k) : group(k)[i] = id) <=> k = nodes_file[id + 1]
          /\ \A k \in Range(keys) : \A i, j \in DOMAIN group(k) :
               i < j => group(k)[i] < group(k)[j]
          /\ \A k \in Range(keys) : Range(group(k)) \subseteq 0..(Len(nodes_file) - 1)
          /\ (nodes_file = <<"L2_X", "L6_Y", "L6_Y">> /\ MappingBuilt) =>
               /\ Len(id_mapping.keys) = 2
               /\ id_mapping.val["L2_X"] = [index |-> <<0>>, new_id |-> <<0>>]
               /\ id_mapping.val["L6_Y"] = [index |-> <<1, 2>>, new_id |-> <<0, 1>>]

\* C7's case: the three nodes of the example are split and mapped
C7_Witness ==
    /\ entry = "split_population"
    /\ nodes_file = <<"L2_X", "L6_Y", "L6_Y">>
    /\ MappingBuilt
    /\ Len(split_populations.keys) = 2

\* C8: the edge population of the ordered pair (src, dst) is named src when src = dst
\* and src__dst__chemical otherwise: every written file holds the one population so
\* named, and every input edge from group a to group b is in the population of (a, b)
C8_PairNaming ==
    /\ _get_population_name("A", "A") = "A"
    /\ _get_population_name("A", "B") = "A__B__chemical"
    /\ \A f \in DOMAIN edge_files : DOMAIN edge_files[f] # {} =>
         \E src, dst \in Range(id_mapping.keys) :
           /\ f = "edges_" \o PairName(src, dst) \o ".h5"
           /\ DOMAIN edge_files[f] = {PairName(src, dst)}
           /\ edge_files[f][PairName(src, dst)].src_pop = src
           /\ edge_files[f][PairName(src, dst)].dst_pop = dst
    /\ EdgesWritten =>
         \A i \in DOMAIN InputRows.source_node_id :
           \A a, b \in Range(id_mapping.keys) :
             (/\ InputRows.source_node_id[i] \in Range(id_mapping.val[a].index)
              /\ InputRows.target_node_id[i] \in Range(id_mapping.val[b].index)) =>
               LET f == "edges_" \o PairName(a, b) \o ".h5"
               IN  /\ f \in DOMAIN edge_files
                   /\ i \in Range(edge_files[f][PairName(a, b)].groups["0"].datasets["delay"])

\* C8's case: an edge inside one population and an edge between two are both written
C8_Witness ==
    /\ EdgesWritten
    /\ "edges_L2_X.h5" \in DOMAIN edge_files
    /\ "edges_L2_X__L6_Y__chemical.h5" \in DOMAIN edge_files

\* C9 as claimed: an input edge population without exactly one group makes the copy
\* fail with ValueError before any row is copied
C9_SingleGroupRequired ==
    (\E n \in DOMAIN edges_file : Cardinality(DOMAIN edges_file[n].groups) # 1) =>
      /\ pairs_done = 0
      /\ \A f \in DOMAIN edge_files : DOMAIN edge_files[f] = {}
      /\ pc \in {"failed", "done"} => error = "ValueError"

\* C10: _get_unique_population returns the name of the only population and raises
\* ValueError for any other count; _write_edges copies nothing from an input file that
\* does not hold exactly one population
C10_UniquePopulation ==
    /\ Cardinality(DOMAIN edges_file) = 1 =>
         /\ _get_unique_population(edges_file).err = "none"
         /\ DOMAIN edges_file = {_get_unique_population(edges_file).name}
    /\ Cardinality(DOMAIN edges_file) # 1 =>
         /\ _get_unique_population(edges_file).err = "ValueError"
         /\ pairs_done = 0 /\ written_edges = 0
         /\ \A f \in DOMAIN edge_files : DOMAIN edge_files[f] = {}
         /\ pc = "failed" => error = "ValueError"
         /\ pc # "circuit_config"

\* C10's case: a file with two populations was refused and nothing was copied
C10_Witness ==
    /\ Cardinality(DOMAIN edges_file) = 2
    /\ \E n \in DOMAIN edges_file : Len(edges_file[n].source_node_id) > 0
    /\ pc = "failed" /\ error = "ValueError"
    /\ DOMAIN edge_files # {}

(***************************************************************************)
(* _copy_edge_attributes called on its own, as _write_edges and            *)
(* _write_subcircuit_edges call it, and run window by window (SpecCopy).   *)
(* The source population is "default" of edges_file, the mappings are      *)
(* id_mapping["A"] and id_mapping["B"], the destination is the population  *)
(* of the pair (A, B) in its edge file.                                    *)
(***************************************************************************)
\* the id mappings _get_node_id_mapping builds over a set of old ids: the kept old ids
\* in the order of the node table, new ids 0..n-1
Mappings(S) == {[index |-> SortedSeq(T), new_id |-> arange(Cardinality(T))] : T \in SUBSET S}

CopyName == _get_population_name("A", "B")

CopyFile == _get_edge_file_name(CopyName)

\* the mappings of test__write_edges' first case
TestMapping ==
    [keys |-> <<"A", "B">>,
     val  |-> [n \in {"A", "B"} |->
                 IF n = "A" THEN [index |-> <<5, 4, 3, 0>>, new_id |-> arange(4)]
                 ELSE [index |-> <<1, 2>>, new_id |-> arange(2)]]]

CopyInit ==
    /\ entry = "_copy_edge_attributes"
    /\ nodes_file = <<>>
    /\ node_set_ids = <<>>
    /\ \/ /\ edges_file \in {EdgesFile("single", e) : e \in SeqsUpTo(NodeIds \X NodeIds, MaxEdges)}
          /\ id_mapping \in {[keys |-> <<"A", "B">>,
                              val  |-> [n \in {"A", "B"} |-> IF n = "A" THEN a ELSE b]] :
                               a \in Mappings(NodeIds), b \in Mappings(NodeIds)}
       \/ /\ edges_file \in {EdgesFile(l, TestEdges) : l \in {"single", "no_group", "two_groups"}}
          /\ id_mapping = TestMapping
    /\ pc = "start"
    /\ split_populations = EmptyDict
    /\ node_files = <<>>
    /\ edge_files = [f \in {CopyFile} |-> <<>>]
    /\ pairs_done = 0
    /\ written_edges = 0
    /\ error = "none"
    /\ circuit_config = NoConfig
    /\ NoScan
    /\ NoSubcircuit

\* _copy_edge_attributes, lines 189-208: the chunk size, the group, the empty datasets
CopyOpen ==
    /\ pc = "start"
    /\ entry = "_copy_edge_attributes"
    /\ \E h5_read_chunk_size \in ChunkSizes :
         LET orig_edges == edges_file["default"]
             unique == _get_unique_group(orig_edges)
             created == [source_node_id |-> <<>>, target_node_id |-> <<>>,
                         src_pop |-> "A", dst_pop |-> "B",
                         groups |-> [g \in {GROUP_NAME} |->
                                       [datasets |-> <<>>, subgroups |-> <<>>]],
                         edge_type_id |-> <<>>, edge_group_id |-> <<>>,
                         edge_group_index |-> <<>>, indices |-> <<>>]
         IN  IF unique.err # "none"
             THEN /\ error' = unique.err
                  /\ pc' = "failed"
                  /\ UNCHANGED <<edge_files, chunk_size, windows_left>>
             ELSE LET init == _init_edge_group(unique.group)
                  IN  /\ error' = init.err
                      /\ pc' = IF init.err # "none" THEN "failed" ELSE "copy_loop"
                      /\ edge_files' =
                           [edge_files EXCEPT ![CopyFile] =
                              Put(@, CopyName,
                                  IF init.err # "none" THEN created
                                  ELSE [created EXCEPT
                                          !.groups = [g \in {GROUP_NAME} |-> init.group]])]
                      /\ chunk_size' = h5_read_chunk_size
                      /\ windows_left' =
                           IF init.err # "none" THEN <<>>
                           ELSE _create_chunked_slices(Len(orig_edges.source_node_id),
                                                       h5_read_chunk_size)
    /\ UNCHANGED <<inputs, subcircuit, split_populations, id_mapping, node_files, pairs_done,
                   written_edges, circuit_config, wanted_src_ids, wanted_dst_ids, ret>>

\* _copy_edge_attributes, lines 210-227: the next window
CopyNextWindow ==
    /\ pc = "copy_loop"
    /\ windows_left # <<>>
    /\ \E env_chunksize \in ChunkSizes :
         edge_files' =
           [edge_files EXCEPT ![CopyFile][CopyName] =
              CopyWindow(edges_file["default"], edges_file["default"].groups[GROUP_NAME],
                         @, Head(windows_left), id_mapping.val["A"], id_mapping.val["B"],
                         env_chunksize)]
    /\ windows_left' = Tail(windows_left)
    /\ UNCHANGED <<inputs, subcircuit, pc, split_populations, id_mapping, node_files, pairs_done,
                   written_edges, error, circuit_config, chunk_size, wanted_src_ids,
                   wanted_dst_ids, ret>>

\* _copy_edge_attributes, line 229, after the last window
CopyFinalize ==
    /\ pc = "copy_loop"
    /\ windows_left = <<>>
    /\ edge_files' = [edge_files EXCEPT ![CopyFile][CopyName] = _finalize_edges(@)]
    /\ pc' = "done"
    /\ UNCHANGED <<inputs, subcircuit, split_populations, id_mapping, node_files, pairs_done,
                   written_edges, error, circuit_config, scan>>

CopyNext ==
    \/ CopyOpen
    \/ CopyNextWindow
    \/ CopyFinalize

SpecCopy == CopyInit /\ [][CopyNext]_vars

\* the population _copy_edge_attributes writes under the chunk size c, all at once
CopiedWith(c) ==
    _copy_edge_attributes(edges_file, <<>>, "A", "B", "default", CopyName,
                          id_mapping.val["A"], id_mapping.val["B"], <<c>>,
                          H5_READ_CHUNKSIZE).h5out[CopyName]

\* C4: for a fixed input edge population and fixed id mappings, the population written
\* by _copy_edge_attributes (edge count, remapped ids, every attribute column) is the
\* same for every chunk size >= 1, from one row per window to the whole array at once
C4_ChunkSizeInvariance ==
    (entry = "_copy_edge_attributes" /\ pc = "done") =>
      LET written == edge_files[CopyFile][CopyName]
          rows == Len(edges_file["default"].source_node_id)
      IN  /\ \A c \in ChunkSizes \cup (1..(rows + 1)) : CopiedWith(c) = written
          /\ Len(written.target_node_id) = Len(written.source_node_id)
          /\ \A d \in DOMAIN written.groups[GROUP_NAME].datasets :
               Len(written.groups[GROUP_NAME].datasets[d]) = Len(written.source_node_id)

\* C4's case: a copy in windows of one row, smaller than the population, that kept
\* rows of more than one window
C4_Witness ==
    /\ entry = "_copy_edge_attributes"
    /\ pc = "done"
    /\ chunk_size = 1
    /\ Len(edges_file["default"].source_node_id) >= 2
    /\ Len(edge_files[CopyFile][CopyName].source_node_id) >= 2

(***************************************************************************)
(* _get_subcircuit_external_ids, run window by window (SpecExternalIds).   *)
(* all_sgids and all_tgids are the columns of the population "default" of  *)
(* edges_file.                                                             *)
(***************************************************************************)
\* DataFrame.sort_index(): the rows in ascending order of the index
sort_index(df) ==
    LET sorted == SortedSeq(Range(df.index))
    IN  [index |-> sorted,
         new_id |-> [i \in DOMAIN sorted |-> df.new_id[IndexOf(df.index, sorted[i])]]]

\* a mutant: the ids of a window are appended whether or not the mapping holds them
ExternalIdsWindow_not_skipping(found, all_sgids, all_tgids, wanted_src, wanted_dst, sl, h5_chunksize) ==
    LET sgids == Slice(all_sgids, sl)
        tgids == Slice(all_tgids, sl)
        mask == MaskAnd(_isin(sgids, wanted_src, FALSE, h5_chunksize),
                        _isin(tgids, wanted_dst, FALSE, h5_chunksize))
        needed == SortedSeq(Range(MaskSelect(sgids, mask)))
    IN  IF ~MaskAny(mask) THEN found
        ELSE IF found.none
        THEN [none |-> FALSE, index |-> needed, new_id |-> arange(Len(needed))]
        ELSE [none |-> FALSE, index |-> found.index \o needed,
              new_id |-> found.new_id
                         \o [i \in DOMAIN needed |-> SeqMax(found.new_id) + 1 + (i - 1)]]

\* _get_subcircuit_external_ids, lines 574-593: one pass of the loop over the window sl
ExternalIdsWindow(found, all_sgids, all_tgids, wanted_src, wanted_dst, sl, h5_chunksize) ==
    LET sgids == Slice(all_sgids, sl)
        tgids == Slice(all_tgids, sl)
        mask == MaskAnd(_isin(sgids, wanted_src, FALSE, h5_chunksize),
                        _isin(tgids, wanted_dst, FALSE, h5_chunksize))
        needed == SortedSeq(Range(MaskSelect(sgids, mask)))
    IN  IF ~MaskAny(mask) THEN found
        ELSE IF found.none
        THEN [none |-> FALSE, index |-> needed, new_id |-> arange(Len(needed))]
        ELSE LET mm == _isin(needed, found.index, TRUE, h5_chunksize)
                 fresh == MaskSelect(needed, mm)
                 start_id == SeqMax(found.new_id) + 1
             IN  IF ~MaskAny(mm) THEN found
                 ELSE [none |-> FALSE, index |-> found.index \o fresh,
                       new_id |-> found.new_id
                                  \o [i \in DOMAIN fresh |-> start_id + (i - 1)]]

RECURSIVE ExternalIdsWindows(_, _, _, _, _, _, _)
\* _get_subcircuit_external_ids, line 573: the loop over the windows
ExternalIdsWindows(slices, found, all_sgids, all_tgids, wanted_src, wanted_dst, h5_chunksize) ==
    IF slices = <<>> THEN found
    ELSE ExternalIdsWindows(Tail(slices),
                            ExternalIdsWindow(found, all_sgids, all_tgids, wanted_src,
                                              wanted_dst, Head(slices), h5_chunksize),
                            all_sgids, all_tgids, wanted_src, wanted_dst, h5_chunksize)

\* _get_subcircuit_external_ids, lines 595-598: the empty frame and the final sort
ExternalIdsResult(found) ==
    sort_index(IF found.none THEN [index |-> <<>>, new_id |-> <<>>] ELSE found)

_get_subcircuit_external_ids(all_sgids, all_tgids, wanted_src, wanted_dst, env_chunksize) ==
    ExternalIdsResult(
        ExternalIdsWindows(_create_chunked_slices(Len(all_sgids), env_chunksize), None,
                           all_sgids, all_tgids, wanted_src, wanted_dst, env_chunksize))

ExternalInit ==
    /\ entry = "_get_subcircuit_external_ids"
    /\ nodes_file = <<>>
    /\ node_set_ids = <<>>
    /\ edges_file \in {EdgesFile("single", e) : e \in SeqsUpTo(NodeIds \X NodeIds, MaxEdges)}
                        \cup {EdgesFile("single", TestEdges), EdgesFile("single", RingEdges),
                              EdgesFile("single", RevisitEdges)}
    /\ wanted_src_ids \in NodeSetIds(MaxNodes)
    /\ wanted_dst_ids \in NodeSetIds(MaxNodes)
    /\ ret = None
    /\ chunk_size = 0
    /\ windows_left = <<>>
    /\ pc = "start"
    /\ split_populations = EmptyDict
    /\ id_mapping = EmptyDict
    /\ node_files = <<>>
    /\ edge_files = <<>>
    /\ pairs_done = 0
    /\ written_edges = 0
    /\ error = "none"
    /\ circuit_config = NoConfig
    /\ NoSubcircuit

\* _get_subcircuit_external_ids, lines 571-573: the chunk size of the environment
ExternalOpen ==
    /\ pc = "start"
    /\ entry = "_get_subcircuit_external_ids"
    /\ \E env_chunksize \in ChunkSizes :
         /\ chunk_size' = env_chunksize
         /\ windows_left' = _create_chunked_slices(Len(edges_file["default"].source_node_id),
                                                   env_chunksize)
    /\ pc' = "external_loop"
    /\ UNCHANGED <<inputs, subcircuit, split_populations, id_mapping, node_files, edge_files, pairs_done,
                   written_edges, error, circuit_config, wanted_src_ids, wanted_dst_ids, ret>>

\* _get_subcircuit_external_ids, lines 574-593: the next window
ExternalNextWindow ==
    /\ pc = "external_loop"
    /\ windows_left # <<>>
    /\ ret' = ExternalIdsWindow(ret, edges_file["default"].source_node_id,
                                edges_file["default"].target_node_id,
                                wanted_src_ids, wanted_dst_ids, Head(windows_left), chunk_size)
    /\ windows_left' = Tail(windows_left)
    /\ UNCHANGED <<inputs, subcircuit, pc, split_populations, id_mapping, node_files, edge_files,
                   pairs_done, written_edges, error, circuit_config, chunk_size,
                   wanted_src_ids, wanted_dst_ids>>

\* _get_subcircuit_external_ids, lines 595-598, after the last window
ExternalReturn ==
    /\ pc = "external_loop"
    /\ windows_left = <<>>
    /\ ret' = ExternalIdsResult(ret)
    /\ pc' = "done"
    /\ UNCHANGED <<inputs, subcircuit, split_populations, id_mapping, node_files, edge_files, pairs_done,
                   written_edges, error, circuit_config, chunk_size, windows_left,
                   wanted_src_ids, wanted_dst_ids>>

ExternalNext ==
    \/ ExternalOpen
    \/ ExternalNextWindow
    \/ ExternalReturn

SpecExternalIds == ExternalInit /\ [][ExternalNext]_vars

\* C5: for fixed inputs, the id mapping _get_subcircuit_external_ids returns (the old ids
\* and the new id of each) is the same for every chunk size >= 1
C5_ExternalIdsChunkInvariance ==
    (entry = "_get_subcircuit_external_ids" /\ pc = "done") =>
      \A c \in ChunkSizes :
        _get_subcircuit_external_ids(edges_file["default"].source_node_id,
                                     edges_file["default"].target_node_id,
                                     wanted_src_ids, wanted_dst_ids, c) = ret

\* whatever the chunk size, the old ids of the returned mapping are the sources of the
\* edges from wanted_src_ids into wanted_dst_ids, ascending, and the new ids are a
\* permutation of 0..n-1
ExternalIdsAreThePresynapticIds ==
    (entry = "_get_subcircuit_external_ids" /\ pc = "done") =>
      LET sgids == edges_file["default"].source_node_id
          tgids == edges_file["default"].target_node_id
      IN  /\ ret.index = SortedSeq({sgids[i] : i \in {j \in DOMAIN sgids :
                                      /\ sgids[j] \in Range(wanted_src_ids)
                                      /\ tgids[j] \in Range(wanted_dst_ids)}})
          /\ Range(ret.new_id) = 0..(Len(ret.index) - 1)
          /\ Len(ret.new_id) = Len(ret.index)

(***************************************************************************)
(* split_subcircuit (SpecSubcircuit).  A circuit is what bluepysnap loads  *)
(* from the descriptor: the node populations (type and attribute rows),    *)
(* the edge populations in the order of circuit.edges, the networks of the *)
(* descriptor, the node sets, and what the node set asked for materializes *)
(* to.  A stanza of the networks is [parent, name, populations]: the name  *)
(* of the directory of its file, the name of its file, its populations in  *)
(* the order of the descriptor.  Output paths are relative to the output   *)
(* directory.                                                              *)
(***************************************************************************)
\* the populations all the stanzas list
StanzaPopulations(stanzas) == UNION {Range(stanzas[k].populations) : k \in DOMAIN stanzas}

\* a mutant: a stanza of one population keeps the directory of its file too
_extract_population_paths_by_directory(stanzas) ==
    [population \in StanzaPopulations(stanzas) |->
       LET stanza == stanzas[CHOOSE k \in DOMAIN stanzas :
                               population \in Range(stanzas[k].populations)]
       IN  PathJoin(stanza.parent, stanza.name)]

\* _extract_population_paths, lines 495-509: population -> relative path; a population
\* listed twice keeps the path of its last stanza
_extract_population_paths(stanzas) ==
    [population \in StanzaPopulations(stanzas) |->
       LET holds(k) == population \in Range(stanzas[k].populations)
           at == CHOOSE k \in DOMAIN stanzas :
                   holds(k) /\ \A j \in DOMAIN stanzas : holds(j) => j <= k
           stanza == stanzas[at]
       IN  IF Len(stanza.populations) = 1
           THEN PathJoin(population, stanza.name)
           ELSE PathJoin(stanza.parent, stanza.name)]

\* _gather_layout_from_networks: the two layouts
_gather_layout_from_networks(networks) ==
    [nodes |-> _extract_population_paths(networks.nodes),
     edges |-> _extract_population_paths(networks.edges)]

\* the node populations, in the ascending order pandas' groupby yields its keys
NodePopulations == <<"A", "B", "V">>

\* split_subcircuit, lines 851-856: the selected nodes grouped by population, each
\* group indexed by node id; a population without a selected node has no group
SubcircuitSplit(circ) ==
    LET selected(n) == circ.selected[n] # <<>>
        keys == SelectSeq(NodePopulations, selected)
    IN  [keys |-> keys,
         val  |-> [n \in Range(keys) |->
                     Rows(_load_sonata_nodes(circ.nodes[n].mtype),
                          [k \in DOMAIN circ.selected[n] |-> circ.selected[n][k] + 1])]]

\* _write_subcircuit_edges, lines 464-478, given what _copy_edge_attributes left: the
\* population is indexed, or deleted when it has no edge, and the file with it when it
\* has no population left
IndexOrDelete(files, output_path, dst_edge_pop_name, copy) ==
    IF copy.err # "none"
    THEN [err |-> copy.err, files |-> Put(files, output_path, copy.h5out),
          path |-> output_path]
    ELSE
    LET counts == _get_node_counts(copy.h5out, dst_edge_pop_name)
        edge_count == counts[1]
        h5out == IF edge_count = 0 THEN Drop(copy.h5out, dst_edge_pop_name)
                 ELSE copy.h5out
        is_file_empty == edge_count = 0 /\ DOMAIN h5out = {}
    IN  IF edge_count > 0
        THEN [err |-> "none",
              files |-> Put(files, output_path,
                            _write_indexes(h5out, dst_edge_pop_name, counts[2], counts[3])),
              path |-> output_path]
        ELSE IF is_file_empty
        THEN [err |-> "none", files |-> Drop(files, output_path),
              path |-> DELETED_EMPTY_EDGES_FILE]
        ELSE [err |-> "none", files |-> Put(files, output_path, h5out),
              path |-> output_path]

\* _write_subcircuit_edges: the edge files afterwards and the path returned; the output
\* file is opened in mode 'a'
_write_subcircuit_edges(files, output_path, h5in, src_node_pop, dst_node_pop, src_edge_pop_name, dst_edge_pop_name, src_mapping, dst_mapping, env_chunksize) ==
    IndexOrDelete(files, output_path, dst_edge_pop_name,
                  _copy_edge_attributes(
                      h5in, IF output_path \in DOMAIN files THEN files[output_path] ELSE <<>>,
                      src_node_pop, dst_node_pop, src_edge_pop_name, dst_edge_pop_name,
                      src_mapping, dst_mapping, <<>>, env_chunksize))

\* new_edges_files[name] = the path _write_subcircuit_edges returned; acc is
\* [err, files, new_edges_files]
Recorded(acc, name, w) ==
    [err |-> w.err, files |-> w.files,
     new_edges_files |-> IF w.err # "none" THEN acc.new_edges_files
                         ELSE DictSet(acc.new_edges_files, name, w.path)]

\* _write_subcircuit_biological, lines 544-558: the body of the loop
BiologicalEdge(edge_pop_name, acc, circ, edge_pop_to_paths, mapping, env_chunksize) ==
    LET edge == circ.edges.val[edge_pop_name]
    IN  IF /\ edge.src_pop \in Range(mapping.keys)
           /\ edge.dst_pop \in Range(mapping.keys)
        THEN Recorded(acc, edge_pop_name,
                      _write_subcircuit_edges(
                          acc.files, edge_pop_to_paths[edge_pop_name], circ.edges.val,
                          edge.src_pop, edge.dst_pop, edge_pop_name, edge_pop_name,
                          mapping.val[edge.src_pop], mapping.val[edge.dst_pop],
                          env_chunksize))
        ELSE acc

RECURSIVE BiologicalEdgesFrom(_, _, _, _, _, _)
\* _write_subcircuit_biological, lines 543-558: the loop over circuit.edges.items()
BiologicalEdgesFrom(names, acc, circ, edge_pop_to_paths, mapping, env_chunksize) ==
    IF names = <<>> \/ acc.err # "none" THEN acc
    ELSE BiologicalEdgesFrom(Tail(names),
                             BiologicalEdge(Head(names), acc, circ, edge_pop_to_paths,
                                            mapping, env_chunksize),
                             circ, edge_pop_to_paths, mapping, env_chunksize)

\* the name of the population the external phase synthesizes for an edge population
ExternalName(name) == "external_" \o name

\* a mutant: the ids of the extracted nodes are not taken out
OutsideIds_everything(edge, circ, mapping, env_chunksize) ==
    arange(Len(circ.nodes[edge.src_pop].mtype))

\* _write_subcircuit_external, lines 616-623: the ids of the source population that
\* are not extracted
OutsideIds(edge, circ, mapping, env_chunksize) ==
    LET ids == arange(Len(circ.nodes[edge.src_pop].mtype))
    IN  IF edge.src_pop \in Range(mapping.keys)
        THEN MaskSelect(ids, _isin(ids, mapping.val[edge.src_pop].index, TRUE, env_chunksize))
        ELSE ids

\* _write_subcircuit_external, lines 647-659, given what _write_subcircuit_edges
\* returned; acc is [err, files, new_edges_files, id_mapping], and new_nodes holds
\* what id_mapping holds under the keys of new_edges_files
ExternalRecorded(acc, new_name, wanted_src, w) ==
    IF w.err # "none"
    THEN [acc EXCEPT !.err = w.err, !.files = w.files]
    ELSE [err |-> "none", files |-> w.files,
          new_edges_files |-> DictSet(acc.new_edges_files, new_name, w.path),
          id_mapping |-> DictSet(acc.id_mapping, new_name, wanted_src)]

\* _write_subcircuit_external, lines 639-659, given the external ids found
ExternalWrite(name, acc, circ, wanted_src, env_chunksize) ==
    IF Len(wanted_src.index) = 0 THEN acc
    ELSE ExternalRecorded(
           acc, ExternalName(name), wanted_src,
           _write_subcircuit_edges(
               acc.files, ExternalName(name) \o ".h5", circ.edges.val,
               circ.edges.val[name].src_pop, circ.edges.val[name].dst_pop,
               name, ExternalName(name), wanted_src,
               acc.id_mapping.val[circ.edges.val[name].dst_pop], env_chunksize))

\* a mutant: the external ids are looked for among all ids of the source population
ExternalEdge_every_source(name, acc, circ, env_chunksize) ==
    LET edge == circ.edges.val[name]
    IN  IF /\ circ.nodes[edge.src_pop].type # "virtual"
           /\ edge.dst_pop \in Range(acc.id_mapping.keys)
        THEN ExternalWrite(
               name, acc, circ,
               _get_subcircuit_external_ids(
                   edge.source_node_id, edge.target_node_id,
                   arange(Len(circ.nodes[edge.src_pop].mtype)),
                   acc.id_mapping.val[edge.dst_pop].index, env_chunksize),
               env_chunksize)
        ELSE acc

\* _write_subcircuit_external, lines 615-659: the body of the loop
ExternalEdge(name, acc, circ, env_chunksize) ==
    LET edge == circ.edges.val[name]
    IN  IF /\ circ.nodes[edge.src_pop].type # "virtual"
           /\ edge.dst_pop \in Range(acc.id_mapping.keys)
        THEN ExternalWrite(
               name, acc, circ,
               _get_subcircuit_external_ids(
                   edge.source_node_id, edge.target_node_id,
                   OutsideIds(edge, circ, acc.id_mapping, env_chunksize),
                   acc.id_mapping.val[edge.dst_pop].index, env_chunksize),
               env_chunksize)
        ELSE acc

RECURSIVE ExternalEdgesFrom(_, _, _, _)
\* _write_subcircuit_external, lines 614-659: the loop over circuit.edges.items()
ExternalEdgesFrom(names, acc, circ, env_chunksize) ==
    IF names = <<>> \/ acc.err # "none" THEN acc
    ELSE ExternalEdgesFrom(Tail(names), ExternalEdge(Head(names), acc, circ, env_chunksize),
                           circ, env_chunksize)

\* curate._create_source_nodes(population_name, source_size, output_dir): a node file
\* with one population of source_size nodes of model type virtual
_create_source_nodes(files, population_name, source_size) ==
    [path  |-> _get_node_file_name(population_name),
     files |-> Put(files, _get_node_file_name(population_name),
                   [n \in {population_name} |->
                      [mtype |-> [i \in 1..source_size |-> "virtual"]]])]

RECURSIVE ExternalNodesFrom(_, _, _)
\* _write_subcircuit_external, lines 661-667; acc is [files, new_node_files]
ExternalNodesFrom(names, acc, mapping) ==
    IF names = <<>> THEN acc
    ELSE LET population_name == Head(names)
             wanted_src == mapping.val[population_name]
         IN  IF Len(wanted_src.index) = 0
             THEN ExternalNodesFrom(Tail(names), acc, mapping)
             ELSE LET created == _create_source_nodes(acc.files, population_name,
                                                      Len(wanted_src.index))
                  IN  ExternalNodesFrom(
                        Tail(names),
                        [files |-> created.files,
                         new_node_files |-> DictSet(acc.new_node_files, population_name,
                                                    created.path)],
                        mapping)

\* edge.afferent_nodes(target_node_ids, unique=True): the sources of the edges into the
\* given target ids, each once, ascending
afferent_nodes(edge, target_node_ids) ==
    SortedSeq({edge.source_node_id[i] :
                 i \in {j \in DOMAIN edge.source_node_id :
                          edge.target_node_id[j] \in Range(target_node_ids)}})

\* _write_subcircuit_virtual, lines 683-686: the edge populations with a virtual source
\* and an extracted target, in the order of circuit.edges
virtual_populations(circ, mapping) ==
    LET wanted(name) ==
          /\ circ.nodes[circ.edges.val[name].src_pop].type = "virtual"
          /\ circ.edges.val[name].dst_pop \in Range(mapping.keys)
    IN  SelectSeq(circ.edges.keys, wanted)

RECURSIVE UsedSourcesFrom_last_only(_, _, _, _)
\* a mutant: the ids used by the last edge population a virtual population feeds
UsedSourcesFrom_last_only(names, acc, circ, mapping) ==
    IF names = <<>> THEN acc
    ELSE LET edge == circ.edges.val[Head(names)]
         IN  UsedSourcesFrom_last_only(
               Tail(names),
               DictSet(acc, edge.src_pop,
                       afferent_nodes(edge, mapping.val[edge.dst_pop].index)),
               circ, mapping)

RECURSIVE UsedSourcesFrom(_, _, _, _)
\* _write_subcircuit_virtual, lines 690-701: virtual population -> the ids used, the
\* union over the edge populations it feeds; acc is an ordered dict
UsedSourcesFrom(names, acc, circ, mapping) ==
    IF names = <<>> THEN acc
    ELSE LET edge == circ.edges.val[Head(names)]
             used == Range(afferent_nodes(edge, mapping.val[edge.dst_pop].index))
             before == IF edge.src_pop \in Range(acc.keys) THEN Range(acc.val[edge.src_pop])
                       ELSE {}
         IN  UsedSourcesFrom(Tail(names),
                             DictSet(acc, edge.src_pop, SortedSeq(before \cup used)),
                             circ, mapping)

RECURSIVE VirtualMappingFrom(_, _, _)
\* _write_subcircuit_virtual, lines 704-705
VirtualMappingFrom(names, used, mapping) ==
    IF names = <<>> THEN mapping
    ELSE VirtualMappingFrom(Tail(names), used,
                            DictSet(mapping, Head(names),
                                    [index  |-> used.val[Head(names)],
                                     new_id |-> arange(Len(used.val[Head(names)]))]))

\* _write_subcircuit_virtual, lines 709-718: the body of the loop
VirtualEdge(edge_pop_name, acc, circ, edge_populations_to_paths, mapping, env_chunksize) ==
    Recorded(acc, edge_pop_name,
             _write_subcircuit_edges(
                 acc.files, edge_populations_to_paths[edge_pop_name], circ.edges.val,
                 circ.edges.val[edge_pop_name].src_pop, circ.edges.val[edge_pop_name].dst_pop,
                 edge_pop_name, edge_pop_name,
                 mapping.val[circ.edges.val[edge_pop_name].src_pop],
                 mapping.val[circ.edges.val[edge_pop_name].dst_pop], env_chunksize))

RECURSIVE VirtualEdgesFrom(_, _, _, _, _, _)
\* _write_subcircuit_virtual, lines 708-718: the loop over virtual_populations
VirtualEdgesFrom(names, acc, circ, edge_populations_to_paths, mapping, env_chunksize) ==
    IF names = <<>> \/ acc.err # "none" THEN acc
    ELSE VirtualEdgesFrom(Tail(names),
                          VirtualEdge(Head(names), acc, circ, edge_populations_to_paths,
                                      mapping, env_chunksize),
                          circ, edge_populations_to_paths, mapping, env_chunksize)

RECURSIVE VirtualNodesFrom(_, _, _, _)
\* _write_subcircuit_virtual, lines 721-725; acc is [files, new_node_files]
VirtualNodesFrom(names, acc, circ, used) ==
    IF names = <<>> THEN acc
    ELSE LET population_name == Head(names)
             ids == used.val[population_name]
             df == Rows(_load_sonata_nodes(circ.nodes[population_name].mtype),
                        [k \in DOMAIN ids |-> ids[k] + 1])
             nodes_path == PathJoin(population_name, "nodes.h5")
         IN  VirtualNodesFrom(
               Tail(names),
               [files |-> _save_sonata_nodes(acc.files, nodes_path, df, population_name),
                new_node_files |-> DictSet(acc.new_node_files, population_name, nodes_path)],
               circ, used)

\* _write_subcircuit_virtual, line 725: the file cell_collection.save_sonata(nodes_path,
\* mode='a') is to append to holds a population of that name already
SavedAlready(files, names) ==
    \E population_name \in Range(names) :
      /\ PathJoin(population_name, "nodes.h5") \in DOMAIN files
      /\ population_name \in DOMAIN files[PathJoin(population_name, "nodes.h5")]

RECURSIVE StanzaEntries(_, _)
\* the (stanza, population) pairs in the order the loops of lines 755-756 visit them
StanzaEntries(stanzas, k) ==
    IF k > Len(stanzas) THEN <<>>
    ELSE [i \in DOMAIN stanzas[k].populations |->
            [el |-> k, population |-> stanzas[k].populations[i]]]
         \o StanzaEntries(stanzas, k + 1)

RECURSIVE UpdatePathsFrom_keeps_deleted(_, _, _)
\* a mutant: a population whose file was deleted is not removed
UpdatePathsFrom_keeps_deleted(entries, acc, new_population_files) ==
    IF entries = <<>> THEN acc
    ELSE LET el == Head(entries).el
             population == Head(entries).population
         IN  IF population \notin acc.left
             THEN UpdatePathsFrom_keeps_deleted(Tail(entries),
                                                [acc EXCEPT !.removed = @ \cup {population}],
                                                new_population_files)
             ELSE UpdatePathsFrom_keeps_deleted(
                    Tail(entries),
                    [acc EXCEPT !.left = @ \ {population},
                                !.file = Put(@, el,
                                             PathJoin("$BASE_DIR",
                                                      new_population_files.val[population]))],
                    new_population_files)

RECURSIVE UpdatePathsFrom(_, _, _)
\* _update_config_with_new_paths, lines 755-773; acc is [left, removed, file]: the keys
\* left in new_population_files, removed_populations, stanza -> the path set last
UpdatePathsFrom(entries, acc, new_population_files) ==
    IF entries = <<>> THEN acc
    ELSE LET el == Head(entries).el
             population == Head(entries).population
         IN  IF population \notin acc.left
             THEN UpdatePathsFrom(Tail(entries),
                                  [acc EXCEPT !.removed = @ \cup {population}],
                                  new_population_files)
             ELSE IF new_population_files.val[population] = DELETED_EMPTY_EDGES_FILE
             THEN UpdatePathsFrom(Tail(entries),
                                  [acc EXCEPT !.left = @ \ {population},
                                              !.removed = @ \cup {population}],
                                  new_population_files)
             ELSE UpdatePathsFrom(Tail(entries),
                                  [acc EXCEPT !.left = @ \ {population},
                                              !.file = Put(@, el,
                                                 PathJoin("$BASE_DIR",
                                                          new_population_files.val[population]))],
                                  new_population_files)

\* f.startswith('external') for the keys the phases create
StartsWithExternal(f, circ) == \E name \in Range(circ.edges.keys) : f = ExternalName(name)

\* _update_config_with_new_paths: the stanzas of config['networks'][type_] afterwards,
\* each [file, populations], or the failed assertion of line 775
_update_config_with_new_paths(stanzas, new_population_files, circ) ==
    LET done == UpdatePathsFrom(StanzaEntries(stanzas, 1),
                                [left |-> Range(new_population_files.keys), removed |-> {},
                                 file |-> <<>>],
                                new_population_files)
        kept(population) == population \notin done.removed
        updated == [k \in DOMAIN stanzas |->
                      [file |-> IF k \in DOMAIN done.file THEN done.file[k]
                                ELSE PathJoin(stanzas[k].parent, stanzas[k].name),
                       populations |-> SelectSeq(stanzas[k].populations, kept)]]
        listed(el) == el.populations # <<>>
    IN  IF \E f \in done.left : ~StartsWithExternal(f, circ)
        THEN [err |-> "AssertionError", stanzas |-> <<>>]
        ELSE [err |-> "none", stanzas |-> SelectSeq(updated, listed)]

RECURSIVE UpdateNodeSetsFrom(_, _, _, _)
\* _update_node_sets: the loop over node_sets.items(); a rule is
\* [node_id, population, mtype]: <<>> where the rule has no such key, <<the value>> where
\* it has
UpdateNodeSetsFrom(names, acc, node_sets, mapping) ==
    IF names = <<>> THEN acc
    ELSE LET name == Head(names)
             rule == node_sets.val[name]
         IN  IF rule.node_id = <<>>
             THEN UpdateNodeSetsFrom(Tail(names), DictSet(acc, name, rule), node_sets, mapping)
             ELSE IF rule.population = <<>> \/ rule.population[1] \notin Range(mapping.keys)
             THEN UpdateNodeSetsFrom(Tail(names), acc, node_sets, mapping)
             ELSE LET df == mapping.val[rule.population[1]]
                      new_ids == {df.new_id[i] : i \in {j \in DOMAIN df.index :
                                                    df.index[j] \in Range(rule.node_id[1])}}
                  IN  UpdateNodeSetsFrom(
                        Tail(names),
                        DictSet(acc, name, [rule EXCEPT !.node_id = <<SortedSeq(new_ids)>>]),
                        node_sets, mapping)

\* a mutant: the node sets are copied as they are
_update_node_sets_not_rewritten(node_sets, mapping) == node_sets

_update_node_sets(node_sets, mapping) ==
    UpdateNodeSetsFrom(node_sets.keys, EmptyDict, node_sets, mapping)

\* _write_mapping: population -> the old ids and the new ids, as lists
_write_mapping(mapping) ==
    [keys |-> mapping.keys,
     val  |-> [population \in Range(mapping.keys) |->
                 [old_id |-> mapping.val[population].index,
                  new_id |-> mapping.val[population].new_id]]]

(***************************************************************************)
(* The circuits.  Biological populations A and B share nodes/nodes.h5,     *)
(* their edge populations share edges/edges.h5; the virtual population V   *)
(* feeds A and B through two edge populations that share                   *)
(* edges/virtual_edges_V.h5.  Every population has two nodes.              *)
(***************************************************************************)
\* edge population -> <<source node population, target node population>>
Endpoints ==
    [e \in {"A__B", "B__A", "V__A", "V__B"} |->
       CASE e = "A__B" -> <<"A", "B">>
         [] e = "B__A" -> <<"B", "A">>
         [] e = "V__A" -> <<"V", "A">>
         [] e = "V__B" -> <<"V", "B">>]

\* the attribute rows of a node population: the row of node k tells population and k
NodeRows(n) == <<n \o "0", n \o "1">>

CircuitNodeIds == {i - 1 : i \in DOMAIN NodeRows("A")}

NodeStanzas ==
    <<[parent |-> "nodes", name |-> "nodes.h5", populations |-> <<"A", "B">>],
      [parent |-> "V", name |-> "nodes.h5", populations |-> <<"V">>]>>

EdgeStanzas(order) ==
    <<[parent |-> "edges", name |-> "edges.h5", populations |-> order],
      [parent |-> "edges", name |-> "virtual_edges_V.h5", populations |-> <<"V__A", "V__B">>]>>

\* the node sets file
NodeSets ==
    [keys |-> <<"mtype_a", "someA", "noPopulation", "allV">>,
     val  |-> [name \in {"mtype_a", "someA", "noPopulation", "allV"} |->
                 CASE name = "mtype_a"      -> [node_id |-> <<>>, population |-> <<>>,
                                                mtype |-> <<"A0">>]
                   [] name = "someA"        -> [node_id |-> <<(<<0, 1>>)>>,
                                                population |-> <<"A">>, mtype |-> <<>>]
                   [] name = "noPopulation" -> [node_id |-> <<(<<0, 1>>)>>,
                                                population |-> <<>>, mtype |-> <<>>]
                   [] name = "allV"         -> [node_id |-> <<(<<0, 1>>)>>,
                                                population |-> <<"V">>, mtype |-> <<>>]]]

\* the rows of the edge population e among the tagged rows <<e, <<source, target>>>>
TaggedRows(tagged, e) ==
    LET rows == MaskSelect(tagged, [i \in DOMAIN tagged |-> tagged[i][1] = e])
    IN  [i \in DOMAIN rows |-> rows[i][2]]

Circuit(order, tagged, selection) ==
    [nodes |-> [n \in Range(NodePopulations) |->
                  [type  |-> IF n = "V" THEN "virtual" ELSE "biophysical",
                   mtype |-> NodeRows(n)]],
     edges |-> [keys |-> order \o <<"V__A", "V__B">>,
                val  |-> [e \in DOMAIN Endpoints |->
                            InPopulation(Endpoints[e][1], Endpoints[e][2],
                                         Sources(TaggedRows(tagged, e)),
                                         Targets(TaggedRows(tagged, e)), {GROUP_NAME})]],
     networks |-> [nodes |-> NodeStanzas, edges |-> EdgeStanzas(order)],
     node_sets |-> NodeSets,
     selected |-> selection]

\* the circuits with the given edges: any nodes of A and of B selected, the nodes of V
\* selected one of virtual, the two edge populations of edges/edges.h5 in either order
CircuitsOver(edges, virtual) ==
    {Circuit(order, tagged,
             [n \in Range(NodePopulations) |->
                IF n = "A" THEN a ELSE IF n = "B" THEN b ELSE v]) :
       order \in {<<"A__B", "B__A">>, <<"B__A", "A__B">>},
       tagged \in edges,
       a \in NodeSetIds(Len(NodeRows("A"))),
       b \in NodeSetIds(Len(NodeRows("B"))),
       v \in virtual}

\* the circuits within the bounds: at most MaxCircuitEdges edges in all, the node set
\* without a virtual node
Circuits ==
    CircuitsOver(SeqsUpTo((DOMAIN Endpoints) \X (CircuitNodeIds \X CircuitNodeIds),
                          MaxCircuitEdges),
                 {<<>>})

\* a circuit in which every edge population has edges: both nodes of A project to node 0
\* of B, node 1 of B to node 1 of A, both nodes of V to node 0 of A, node 0 of V to
\* node 1 of B
ConnectedEdges ==
    <<(<<"A__B", (<<1, 0>>)>>), (<<"A__B", (<<0, 0>>)>>), (<<"B__A", (<<1, 1>>)>>),
      (<<"V__A", (<<0, 0>>)>>), (<<"V__A", (<<1, 0>>)>>), (<<"V__B", (<<0, 1>>)>>)>>

\* that circuit, under every node set: the node set may select virtual nodes too
FixtureCircuits == CircuitsOver({ConnectedEdges}, NodeSetIds(Len(NodeRows("V"))))

\* circuits of that kind whose node set selects nodes of V and none of A, and in which
\* the node file of V is V/virtual_nodes.h5, not V/nodes.h5
RenamedVirtualCircuits ==
    {[c EXCEPT !.networks.nodes[2].name = "virtual_nodes.h5"] :
       c \in {f \in FixtureCircuits : /\ f.selected["A"] = <<>>
                                       /\ f.selected["V"] # <<>>
                                       /\ f.edges.keys[1] = "A__B"}}

\* circuits of that kind with a second virtual population W, which projects from its
\* node 0 to node 0 of A and shares the node file virtual/nodes.h5 with V; the node set
\* selects node 0 of A, any nodes of B and no virtual node
SharedVirtualCircuits ==
    {[c EXCEPT !.nodes = [n \in DOMAIN c.nodes \cup {"W"} |->
                            IF n = "W" THEN [type |-> "virtual", mtype |-> NodeRows("W")]
                            ELSE c.nodes[n]],
               !.edges = [keys |-> Append(c.edges.keys, "W__A"),
                          val  |-> [e \in DOMAIN c.edges.val \cup {"W__A"} |->
                                      IF e = "W__A"
                                      THEN InPopulation("W", "A", <<0>>, <<0>>, {GROUP_NAME})
                                      ELSE c.edges.val[e]]],
               !.networks.nodes[2] = [parent |-> "virtual", name |-> "nodes.h5",
                                      populations |-> <<"V", "W">>],
               !.networks.edges = Append(@, [parent |-> "edges",
                                             name |-> "virtual_edges_W.h5",
                                             populations |-> <<"W__A">>])] :
       c \in {f \in FixtureCircuits : /\ f.selected["A"] = <<0>>
                                       /\ f.selected["V"] = <<>>
                                       /\ f.edges.keys[1] = "A__B"}}

SubcircuitInit ==
    /\ entry = "split_subcircuit"
    /\ circuit \in Circuits \cup FixtureCircuits \cup RenamedVirtualCircuits
                   \cup SharedVirtualCircuits
    /\ nodes_file = <<>>
    /\ node_set_ids = <<>>
    /\ edges_file = <<>>
    /\ pc = "start"
    /\ split_populations = EmptyDict
    /\ id_mapping = EmptyDict
    /\ node_files = <<>>
    /\ edge_files = <<>>
    /\ pairs_done = 0
    /\ written_edges = 0
    /\ error = "none"
    /\ circuit_config = NoConfig
    /\ NoScan
    /\ create_external = <<>>
    /\ do_virtual = <<>>
    /\ new_node_files = EmptyDict
    /\ new_edge_files = EmptyDict
    /\ mapping_file = <<>>
    /\ node_sets_file = <<>>

\* split_subcircuit, lines 844-857: the layout, the partition, the id mapping
SubcircuitPartition ==
    /\ pc = "start"
    /\ entry = "split_subcircuit"
    /\ split_populations' = SubcircuitSplit(circuit)
    /\ id_mapping' = _get_node_id_mapping(SubcircuitSplit(circuit))
    /\ pc' = "biological"
    /\ UNCHANGED <<inputs, scan, circuit, create_external, do_virtual, new_node_files,
                   new_edge_files, mapping_file, node_sets_file, node_files, edge_files,
                   pairs_done, written_edges, error, circuit_config>>

\* split_subcircuit, lines 863-864: _write_subcircuit_biological
WriteSubcircuitBiological ==
    /\ pc = "biological"
    /\ \E env_chunksize \in ChunkSizes :
       \E layout \in {_gather_layout_from_networks(circuit.networks)} :
       \E written \in {BiologicalEdgesFrom(
                           circuit.edges.keys,
                           [err |-> "none", files |-> edge_files,
                            new_edges_files |-> EmptyDict],
                           circuit, layout.edges, id_mapping, env_chunksize)} :
         /\ node_files' = _write_nodes(node_files, split_populations, layout.nodes)
         /\ new_node_files' =
              [keys |-> split_populations.keys,
               val  |-> WrittenNodePaths(split_populations, layout.nodes)]
         /\ edge_files' = written.files
         /\ new_edge_files' = written.new_edges_files
         /\ error' = written.err
         /\ pc' = IF written.err # "none" THEN "failed" ELSE "external"
    /\ UNCHANGED <<inputs, scan, circuit, create_external, do_virtual, mapping_file,
                   node_sets_file, split_populations, id_mapping, pairs_done, written_edges,
                   circuit_config>>

\* split_subcircuit, lines 866-871: _write_subcircuit_external when create_external
WriteSubcircuitExternal ==
    /\ pc = "external"
    /\ \E flag \in BOOLEAN, env_chunksize \in ChunkSizes :
         /\ create_external' = <<flag>>
         /\ IF ~flag
            THEN /\ pc' = "virtual"
                 /\ UNCHANGED <<id_mapping, node_files, edge_files, new_node_files,
                                new_edge_files, error>>
            ELSE \E written \in {ExternalEdgesFrom(
                                     circuit.edges.keys,
                                     [err |-> "none", files |-> edge_files,
                                      new_edges_files |-> EmptyDict,
                                      id_mapping |-> id_mapping],
                                     circuit, env_chunksize)} :
                 \E nodes \in {ExternalNodesFrom(
                                   written.new_edges_files.keys,
                                   [files |-> node_files, new_node_files |-> new_node_files],
                                   written.id_mapping)} :
                   /\ id_mapping' = written.id_mapping
                   /\ edge_files' = written.files
                   /\ error' = written.err
                   /\ IF written.err # "none"
                      THEN /\ pc' = "failed"
                           /\ UNCHANGED <<node_files, new_node_files, new_edge_files>>
                      ELSE /\ pc' = "virtual"
                           /\ node_files' = nodes.files
                           /\ new_node_files' = nodes.new_node_files
                           /\ new_edge_files' = DictUpdate(new_edge_files,
                                                           written.new_edges_files)
    /\ UNCHANGED <<inputs, scan, circuit, do_virtual, mapping_file, node_sets_file,
                   split_populations, pairs_done, written_edges, circuit_config>>

\* split_subcircuit, lines 873-877: _write_subcircuit_virtual when do_virtual.  The node
\* set may have selected nodes of a virtual population, which the biological phase wrote
\* to <population>/nodes.h5 already: whether the library then replaces the population or
\* refuses to create it is not settled by this repository, and either may happen
WriteSubcircuitVirtual ==
    /\ pc = "virtual"
    /\ \E flag \in BOOLEAN, env_chunksize \in ChunkSizes, replaces \in BOOLEAN :
         /\ do_virtual' = <<flag>>
         /\ IF ~flag
            THEN /\ pc' = "rewrite"
                 /\ UNCHANGED <<id_mapping, node_files, edge_files, new_node_files,
                                new_edge_files, error>>
            ELSE \E layout \in {_gather_layout_from_networks(circuit.networks)} :
                 \E names \in {virtual_populations(circuit, id_mapping)} :
                 \E used \in {UsedSourcesFrom(names, EmptyDict, circuit, id_mapping)} :
                 \E mapping \in {VirtualMappingFrom(used.keys, used, id_mapping)} :
                 \E written \in {VirtualEdgesFrom(
                                     names,
                                     [err |-> "none", files |-> edge_files,
                                      new_edges_files |-> EmptyDict],
                                     circuit, layout.edges, mapping, env_chunksize)} :
                 \E nodes \in {VirtualNodesFrom(
                                   used.keys,
                                   [files |-> node_files, new_node_files |-> EmptyDict],
                                   circuit, used)} :
                   /\ id_mapping' = mapping
                   /\ edge_files' = written.files
                   /\ IF written.err # "none"
                      THEN /\ error' = written.err
                           /\ pc' = "failed"
                           /\ UNCHANGED <<node_files, new_node_files, new_edge_files>>
                      ELSE IF SavedAlready(node_files, used.keys) /\ ~replaces
                      THEN /\ error' = "ValueError"
                           /\ pc' = "failed"
                           /\ UNCHANGED <<node_files, new_node_files, new_edge_files>>
                      ELSE /\ error' = "none"
                           /\ pc' = "rewrite"
                           /\ node_files' = nodes.files
                           /\ new_node_files' = DictUpdate(new_node_files,
                                                           nodes.new_node_files)
                           /\ new_edge_files' = DictUpdate(new_edge_files,
                                                           written.new_edges_files)
    /\ UNCHANGED <<inputs, scan, circuit, create_external, mapping_file, node_sets_file,
                   split_populations, pairs_done, written_edges, circuit_config>>

\* split_subcircuit, lines 879-890: the audit file, the node sets, the descriptor
RewriteDescriptor ==
    /\ pc = "rewrite"
    /\ mapping_file' = _write_mapping(id_mapping)
    /\ node_sets_file' = _update_node_sets(circuit.node_sets, id_mapping)
    /\ \E nodes \in {_update_config_with_new_paths(circuit.networks.nodes, new_node_files,
                                                   circuit)} :
       \E edges \in {_update_config_with_new_paths(circuit.networks.edges, new_edge_files,
                                                   circuit)} :
         IF nodes.err # "none" \/ edges.err # "none"
         THEN /\ error' = IF nodes.err # "none" THEN nodes.err ELSE edges.err
              /\ pc' = "failed"
              /\ UNCHANGED circuit_config
         ELSE /\ error' = "none"
              /\ pc' = "done"
              /\ circuit_config' =
                   [written |-> TRUE, nodes |-> nodes.stanzas, edges |-> edges.stanzas,
                    manifest |-> "./", node_sets_file |-> "$BASE_DIR/node_sets.json"]
    /\ UNCHANGED <<inputs, scan, circuit, create_external, do_virtual, new_node_files,
                   new_edge_files, split_populations, id_mapping, node_files, edge_files,
                   pairs_done, written_edges>>

SubcircuitNext ==
    \/ SubcircuitPartition
    \/ WriteSubcircuitBiological
    \/ WriteSubcircuitExternal
    \/ WriteSubcircuitVirtual
    \/ RewriteDescriptor

SpecSubcircuit == SubcircuitInit /\ [][SubcircuitNext]_vars

\* the edge populations the descriptor written lists
ListedEdgePopulations ==
    UNION {Range(circuit_config.edges[k].populations) : k \in DOMAIN circuit_config.edges}

\* C3: after split_subcircuit completes, no output edge population with zero edges
\* remains in an output file, no output edge file without a population remains, and
\* every edge population the output descriptor lists was written with at least one
\* edge, whatever the order of the edge populations that share an output file
C3_NoDanglingEmpties ==
    (entry = "split_subcircuit" /\ pc = "done") =>
      /\ \A f \in DOMAIN edge_files :
           /\ DOMAIN edge_files[f] # {}
           /\ \A p \in DOMAIN edge_files[f] : Len(edge_files[f][p].source_node_id) > 0
      /\ \A p \in ListedEdgePopulations :
           \E f \in DOMAIN edge_files :
             /\ p \in DOMAIN edge_files[f]
             /\ Len(edge_files[f][p].source_node_id) > 0

\* what does hold after split_subcircuit: no zero-edge population and no file without
\* a population remains on disk
NoEmptyEdgePopulationOnDisk ==
    (entry = "split_subcircuit" /\ pc = "done") =>
      \A f \in DOMAIN edge_files :
        /\ DOMAIN edge_files[f] # {}
        /\ \A p \in DOMAIN edge_files[f] : Len(edge_files[f][p].source_node_id) > 0

\* what holds after split_population: every edge file left holds its one population
\* with at least one edge, and the descriptor lists exactly the edge files left
NoEmptyEdgeFileAfterSplitPopulation ==
    (entry \in {"split_population", "simple_split_subcircuit"} /\ pc = "done") =>
      /\ \A f \in DOMAIN edge_files :
           /\ Cardinality(DOMAIN edge_files[f]) = 1
           /\ \A p \in DOMAIN edge_files[f] : Len(edge_files[f][p].source_node_id) > 0
      /\ circuit_config.written =>
           Range(circuit_config.edges) = {PathJoin("$BASE_DIR", f) : f \in DOMAIN edge_files}

(***************************************************************************)
(* _update_node_sets on its own: a node sets file and an id mapping are    *)
(* drawn, the function is applied once.                                    *)
(***************************************************************************)
\* nothing has been split or written
NothingWritten ==
    /\ split_populations = EmptyDict
    /\ node_files = <<>>
    /\ edge_files = <<>>
    /\ pairs_done = 0
    /\ written_edges = 0
    /\ error = "none"
    /\ circuit_config = NoConfig

\* the node sets and the id mapping of test__update_node_sets
TestNodeSets ==
    [keys |-> <<"CopiedNoNodeIds", "MissingPopluationNotCopied", "HasPopulationCopied">>,
     val  |-> [name \in {"CopiedNoNodeIds", "MissingPopluationNotCopied",
                         "HasPopulationCopied"} |->
                 CASE name = "CopiedNoNodeIds" ->
                        [node_id |-> <<>>, population |-> <<>>, mtype |-> <<>>]
                   [] name = "MissingPopluationNotCopied" ->
                        [node_id |-> <<(<<15, 280, 397>>)>>, population |-> <<>>,
                         mtype |-> <<>>]
                   [] name = "HasPopulationCopied" ->
                        [node_id |-> <<(<<3, 4, 5, 1003, 1004, 1005>>)>>,
                         population |-> <<"A">>, mtype |-> <<"foo">>]]]

TestIdMapping == [index |-> <<0, 5, 4, 3>>, new_id |-> arange(4)]

\* the rules within the bounds: with or without a node_id list (of ids of which one is
\* beyond the nodes, in any order), with or without a population, with or without an
\* attribute filter
Rules ==
    {[node_id |-> n, population |-> p, mtype |-> t] :
       n \in {<<>>} \cup {<<ids>> : ids \in {s \in SeqsUpTo(0..MaxNodes, MaxNodes) :
                                               IsInjective(s)}},
       p \in {<<>>, <<"A">>, <<"B">>},
       t \in {<<>>, <<"foo">>}}

\* the id mappings within the bounds: A absent, or as _get_node_id_mapping builds it, or
\* the one of the test; B absent or whole
IdMappings ==
    {[keys |-> SelectSeq(<<"A", "B">>, LAMBDA n : n \in DOMAIN val), val |-> val] :
       val \in UNION {[P -> Mappings(NodeIds) \cup {TestIdMapping}] :
                        P \in SUBSET {"A", "B"}}}

NodeSetsInit ==
    /\ entry = "_update_node_sets"
    /\ nodes_file = <<>>
    /\ node_set_ids = <<>>
    /\ edges_file = <<>>
    /\ pc = "start"
    /\ circuit \in {[node_sets |-> DictSet(TestNodeSets, "drawn", rule)] : rule \in Rules}
    /\ id_mapping \in IdMappings
    /\ create_external = <<>>
    /\ do_virtual = <<>>
    /\ new_node_files = EmptyDict
    /\ new_edge_files = EmptyDict
    /\ mapping_file = <<>>
    /\ node_sets_file = <<>>
    /\ NothingWritten
    /\ NoScan

\* _update_node_sets, lines 790-818
UpdateNodeSets ==
    /\ pc = "start"
    /\ entry = "_update_node_sets"
    /\ node_sets_file' = _update_node_sets(circuit.node_sets, id_mapping)
    /\ pc' = "done"
    /\ UNCHANGED <<inputs, scan, circuit, create_external, do_virtual, new_node_files,
                   new_edge_files, mapping_file, split_populations, id_mapping, node_files,
                   edge_files, pairs_done, written_edges, error, circuit_config>>

NodeSetsNext == UpdateNodeSets

SpecNodeSets == NodeSetsInit /\ [][NodeSetsNext]_vars

\* the new id the mapping df gives the old id
NewIdOf(df, old_id) == df.new_id[IndexOf(df.index, old_id)]

\* s is strictly ascending
IsAscending(s) == \A i, j \in DOMAIN s : i < j => s[i] < s[j]

\* C11: a rule without a node_id list is passed through unchanged; a node_id rule whose
\* population is in the id mapping is kept, its node_id list replaced by the new ids of
\* exactly the listed old ids that are in the mapping, ascending, its other keys
\* unchanged; a node_id rule without a population, or whose population is not in the
\* mapping, is dropped
C11_NodeSetsRewritten ==
    (entry = "_update_node_sets" /\ pc = "done") =>
      /\ Range(node_sets_file.keys) \subseteq Range(circuit.node_sets.keys)
      /\ \A name \in Range(circuit.node_sets.keys) :
           LET rule == circuit.node_sets.val[name]
               copied == name \in Range(node_sets_file.keys)
           IN  IF rule.node_id = <<>>
               THEN copied /\ node_sets_file.val[name] = rule
               ELSE IF rule.population # <<>> /\ rule.population[1] \in Range(id_mapping.keys)
               THEN LET df == id_mapping.val[rule.population[1]]
                        new_rule == node_sets_file.val[name]
                    IN  /\ copied
                        /\ new_rule.population = rule.population
                        /\ new_rule.mtype = rule.mtype
                        /\ Len(new_rule.node_id) = 1
                        /\ IsAscending(new_rule.node_id[1])
                        /\ Range(new_rule.node_id[1]) =
                             {NewIdOf(df, old_id) :
                                old_id \in Range(rule.node_id[1]) \cap Range(df.index)}
               ELSE ~copied

\* a rule that lists ids out of order, one of them not in the mapping, was rewritten, and
\* the rule of the test was rewritten through the mapping of the test
C11_Witness ==
    /\ entry = "_update_node_sets"
    /\ pc = "done"
    /\ "drawn" \in Range(node_sets_file.keys)
    /\ LET rule == circuit.node_sets.val["drawn"]
       IN  /\ rule.node_id # <<>>
           /\ ~IsAscending(rule.node_id[1])
           /\ Len(node_sets_file.val["drawn"].node_id[1]) >= 1
           /\ Len(node_sets_file.val["drawn"].node_id[1]) < Len(rule.node_id[1])
    /\ node_sets_file.val["HasPopulationCopied"].node_id = <<(<<1, 2, 3>>)>>

(***************************************************************************)
(* _gather_layout_from_networks on its own: the networks of a descriptor   *)
(* are drawn, the function is applied once.  A population is listed by one *)
(* stanza only, and the file of a stanza has a parent directory.           *)
(***************************************************************************)
\* the networks of the first call of test__gather_layout_from_networks with a result
TestNetworks ==
    [nodes |-> <<[parent |-> "b", name |-> "a.h5", populations |-> <<"a">>],
                 [parent |-> "b", name |-> "bc.h5", populations |-> <<"b", "c">>],
                 [parent |-> "b", name |-> "a.h5", populations |-> <<"A">>]>>,
     edges |-> <<[parent |-> "b", name |-> "a.h5", populations |-> <<"a_a">>],
                 [parent |-> "b", name |-> "bc.h5", populations |-> <<"b_c", "c_b">>],
                 [parent |-> "a", name |-> "bc.h5", populations |-> <<"a_c", "a_b">>],
                 [parent |-> "b", name |-> "a.h5", populations |-> <<"A_a">>]>>]

\* the stanzas that list the populations of S, in the order of pool
StanzasOf(pool, S) ==
    {[parent |-> d, name |-> f, populations |-> SelectSeq(pool, LAMBDA p : p \in S)] :
       d \in {"a", "b"}, f \in {"a.h5", "bc.h5"}}

\* the lists of at most MaxStanzas stanzas over the populations of pool, no population
\* listed twice
StanzaLists(pool) ==
    {stanzas \in SeqsUpTo(UNION {StanzasOf(pool, S) : S \in SUBSET Range(pool)}, MaxStanzas) :
       \A i, j \in DOMAIN stanzas :
         i # j => Range(stanzas[i].populations) \cap Range(stanzas[j].populations) = {}}

\* the networks within the bounds, and the ones of the test
Networks ==
    {[nodes |-> n, edges |-> e] :
       n \in StanzaLists(<<"a", "b", "c">>),
       e \in {<<>>, <<[parent |-> "b", name |-> "bc.h5", populations |-> <<"b_c", "c_b">>]>>,
              TestNetworks.edges}}
      \cup {TestNetworks}

LayoutInit ==
    /\ entry = "_gather_layout_from_networks"
    /\ nodes_file = <<>>
    /\ node_set_ids = <<>>
    /\ edges_file = <<>>
    /\ pc = "start"
    /\ circuit \in {[networks |-> networks] : networks \in Networks}
    /\ id_mapping = EmptyDict
    /\ create_external = <<>>
    /\ do_virtual = <<>>
    /\ new_node_files = EmptyDict
    /\ new_edge_files = EmptyDict
    /\ mapping_file = <<>>
    /\ node_sets_file = <<>>
    /\ NothingWritten
    /\ NoScan

\* _gather_layout_from_networks, lines 481-514
GatherLayout ==
    /\ pc = "start"
    /\ entry = "_gather_layout_from_networks"
    /\ ret' = _gather_layout_from_networks(circuit.networks)
    /\ pc' = "done"
    /\ UNCHANGED <<inputs, subcircuit, chunk_size, windows_left, wanted_src_ids,
                   wanted_dst_ids, split_populations, id_mapping, node_files, edge_files,
                   pairs_done, written_edges, error, circuit_config>>

LayoutNext == GatherLayout

SpecLayout == LayoutInit /\ [][LayoutNext]_vars

\* the layout maps every population of the stanzas, and nothing else: the population of
\* a stanza of one to <population>/<file name>, the populations of a stanza of several
\* to <directory of the file>/<file name>
LayoutOf(stanzas, layout) ==
    /\ DOMAIN layout = StanzaPopulations(stanzas)
    /\ \A k \in DOMAIN stanzas :
         \A i \in DOMAIN stanzas[k].populations :
           layout[stanzas[k].populations[i]] =
             IF Len(stanzas[k].populations) = 1
             THEN stanzas[k].populations[i] \o "/" \o stanzas[k].name
             ELSE stanzas[k].parent \o "/" \o stanzas[k].name

\* C12: _gather_layout_from_networks maps every population of every nodes and edges
\* stanza to a relative output path, <population>/<file name> for a stanza of exactly
\* one population and <directory of the file>/<file name> for every population of a
\* stanza of several; an empty network yields two empty maps
C12_Layout ==
    (entry = "_gather_layout_from_networks" /\ pc = "done") =>
      /\ LayoutOf(circuit.networks.nodes, ret.nodes)
      /\ LayoutOf(circuit.networks.edges, ret.edges)
      /\ (circuit.networks.nodes = <<>> /\ circuit.networks.edges = <<>>) =>
           (ret.nodes = <<>> /\ ret.edges = <<>>)

\* the networks of the test gave the layout the test expects
C12_Witness ==
    /\ entry = "_gather_layout_from_networks"
    /\ pc = "done"
    /\ circuit.networks = TestNetworks
    /\ ret.nodes = [p \in {"A", "a", "b", "c"} |->
                      CASE p = "A" -> "A/a.h5" [] p = "a" -> "a/a.h5"
                        [] OTHER -> "b/bc.h5"]
    /\ ret.edges["A_a"] = "A_a/a.h5"
    /\ ret.edges["a_b"] = "a/bc.h5"
    /\ ret.edges["c_b"] = "b/bc.h5"

(***************************************************************************)
(* _write_circuit_config on its own: the new populations and the files of  *)
(* the output directory are drawn, the function is applied once.           *)
(***************************************************************************)
\* the new populations: those of test__write_circuit_config first
ConfigPopulations == <<"A", "B", "C", "D">>

\* the partitions of at most MaxNodes populations, one node each
ConfigSplits ==
    {[keys |-> SubSeq(ConfigPopulations, 1, n),
      val  |-> [v \in {ConfigPopulations[k] : k \in 1..n} |->
                  Rows(_load_sonata_nodes(SubSeq(ConfigPopulations, 1, n)),
                       <<IndexOf(ConfigPopulations, v)>>)]] :
       n \in 0..MaxNodes}

\* the files an output directory may hold: the edge file of any pair of populations, and
\* a file that is none of them
ConfigFileNames ==
    {_get_edge_file_name(_get_population_name(ConfigPopulations[i], ConfigPopulations[j])) :
       i, j \in 1..MaxNodes} \cup {"edges.h5"}

ConfigInit ==
    /\ entry = "_write_circuit_config"
    /\ nodes_file = <<>>
    /\ node_set_ids = <<>>
    /\ edges_file = <<>>
    /\ pc = "start"
    /\ split_populations \in ConfigSplits
    /\ edge_files \in {[f \in F |-> <<>>] : F \in SUBSET ConfigFileNames}
    /\ id_mapping = EmptyDict
    /\ node_files = <<>>
    /\ pairs_done = 0
    /\ written_edges = 0
    /\ error = "none"
    /\ circuit_config = NoConfig
    /\ NoScan
    /\ NoSubcircuit

\* _write_circuit_config, lines 351-378
WriteConfig ==
    /\ pc = "start"
    /\ entry = "_write_circuit_config"
    /\ circuit_config' = [_write_circuit_config(edge_files, split_populations)
                            EXCEPT !.written = TRUE]
    /\ pc' = "done"
    /\ UNCHANGED <<inputs, subcircuit, scan, split_populations, id_mapping, node_files,
                   edge_files, pairs_done, written_edges, error>>

ConfigNext == WriteConfig

SpecConfig == ConfigInit /\ [][ConfigNext]_vars

\* C13: _write_circuit_config writes a descriptor with exactly one nodes entry per new
\* population, and an edges entry for exactly those ordered pairs (src, dst) of new
\* populations whose edge file exists in the output directory when it is called: none
\* when no edge file exists
C13_CircuitConfig ==
    (entry = "_write_circuit_config" /\ pc = "done") =>
      LET populations == Range(split_populations.keys)
          on_disk == {pair \in populations \X populations :
                        ("edges_" \o PairName(pair[1], pair[2]) \o ".h5") \in DOMAIN edge_files}
      IN  /\ circuit_config.written
          /\ Len(circuit_config.nodes) = Cardinality(populations)
          /\ Range(circuit_config.nodes) = {"$BASE_DIR/nodes_" \o n \o ".h5" : n \in populations}
          /\ Len(circuit_config.edges) = Cardinality(on_disk)
          /\ Range(circuit_config.edges) =
               {"$BASE_DIR/edges_" \o PairName(pair[1], pair[2]) \o ".h5" : pair \in on_disk}

\* the second call of the test: populations A and B, the edge files of A, of B and of
\* the pair (A, B) on disk, three edges entries written
C13_Witness ==
    /\ entry = "_write_circuit_config"
    /\ pc = "done"
    /\ split_populations.keys = <<"A", "B">>
    /\ DOMAIN edge_files = {"edges_A.h5", "edges_B.h5", "edges_A__B__chemical.h5", "edges.h5"}
    /\ Len(circuit_config.edges) = 3
    /\ Len(circuit_config.nodes) = 2

(***************************************************************************)
(* _update_config_with_new_paths on its own: the stanzas of one key of the *)
(* networks and the files written for the populations are drawn, the other *)
(* key has no stanza.  Paths are kept relative to the output directory, as *)
(* everywhere: the path a file was written at is the output directory      *)
(* joined with it.                                                         *)
(***************************************************************************)
\* the populations of the descriptor, and what may have been written for them
PathPopulations == <<"a", "b", "c">>

\* the lists of stanzas over PathPopulations, their files named alike
PathStanzaLists == {stanzas \in StanzaLists(PathPopulations) :
                      \A k \in DOMAIN stanzas :
                        stanzas[k].parent = "b" /\ stanzas[k].name = "bc.h5"}

\* what may have been written for a population: the sentinel, the path of the layout,
\* or <population>/nodes.h5
PathsFor(stanzas, population) ==
    IF population \notin Range(PathPopulations) THEN {PathJoin(population, "nodes.h5")}
    ELSE {DELETED_EMPTY_EDGES_FILE, PathJoin(population, "nodes.h5")}
           \cup (IF population \in StanzaPopulations(stanzas)
                 THEN {_extract_population_paths(stanzas)[population]} ELSE {})

\* the new_population_files there may be for the stanzas: any of the populations, and
\* an external population, with or without an entry
NewPopulationFiles(stanzas) ==
    LET names == PathPopulations \o <<ExternalName("a")>>
        paths == UNION {PathsFor(stanzas, p) : p \in Range(names)}
    IN  {[keys |-> SelectSeq(names, LAMBDA p : p \in DOMAIN val), val |-> val] :
           val \in UNION {{f \in [P -> paths] : \A p \in P : f[p] \in PathsFor(stanzas, p)} :
                            P \in SUBSET Range(names)}}

PathsInit ==
    /\ entry = "_update_config_with_new_paths"
    /\ nodes_file = <<>>
    /\ node_set_ids = <<>>
    /\ edges_file = <<>>
    /\ pc = "start"
    /\ \E stanzas \in PathStanzaLists, type_ \in {"nodes", "edges"} :
         /\ circuit = [networks |-> [nodes |-> IF type_ = "nodes" THEN stanzas ELSE <<>>,
                                     edges |-> IF type_ = "edges" THEN stanzas ELSE <<>>],
                       edges |-> [keys |-> PathPopulations, val |-> <<>>]]
         /\ \E files \in NewPopulationFiles(stanzas) :
              /\ new_node_files = IF type_ = "nodes" THEN files ELSE EmptyDict
              /\ new_edge_files = IF type_ = "edges" THEN files ELSE EmptyDict
    /\ id_mapping = EmptyDict
    /\ create_external = <<>>
    /\ do_virtual = <<>>
    /\ mapping_file = <<>>
    /\ node_sets_file = <<>>
    /\ NothingWritten
    /\ NoScan

\* split_subcircuit, lines 888-889: _update_config_with_new_paths for the nodes, then for
\* the edges
UpdateConfigWithNewPaths ==
    /\ pc = "start"
    /\ entry = "_update_config_with_new_paths"
    /\ \E nodes \in {_update_config_with_new_paths(circuit.networks.nodes, new_node_files,
                                                   circuit)} :
       \E edges \in {_update_config_with_new_paths(circuit.networks.edges, new_edge_files,
                                                   circuit)} :
         IF nodes.err # "none" \/ edges.err # "none"
         THEN /\ error' = IF nodes.err # "none" THEN nodes.err ELSE edges.err
              /\ pc' = "failed"
              /\ UNCHANGED circuit_config
         ELSE /\ error' = "none"
              /\ pc' = "done"
              /\ circuit_config' =
                   [written |-> FALSE, nodes |-> nodes.stanzas, edges |-> edges.stanzas,
                    manifest |-> "./"]
    /\ UNCHANGED <<inputs, scan, circuit, create_external, do_virtual, new_node_files,
                   new_edge_files, mapping_file, node_sets_file, split_populations,
                   id_mapping, node_files, edge_files, pairs_done, written_edges>>

PathsNext == UpdateConfigWithNewPaths

SpecPaths == PathsInit /\ [][PathsNext]_vars

\* the stanzas returned for the stanzas given and the files written: a population given
\* is listed iff it has an entry that is not the sentinel, nothing else is listed, no
\* stanza is without a population, and the file of a stanza is $BASE_DIR joined with the
\* path written for one of its populations
UpdatedStanzas(stanzas, new_population_files, updated) ==
    LET listed == UNION {Range(updated[k].populations) : k \in DOMAIN updated}
    IN  /\ listed \subseteq StanzaPopulations(stanzas)
        /\ \A population \in StanzaPopulations(stanzas) :
             population \in listed <=>
               /\ population \in Range(new_population_files.keys)
               /\ new_population_files.val[population] # DELETED_EMPTY_EDGES_FILE
        /\ \A k \in DOMAIN updated :
             /\ updated[k].populations # <<>>
             /\ \E population \in Range(updated[k].populations) :
                  updated[k].file = "$BASE_DIR/" \o new_population_files.val[population]

\* C14: the descriptor _update_config_with_new_paths returns lists a population of the
\* original descriptor iff it has an entry in new_population_files that is not the
\* deleted-file sentinel, has no stanza without a population, gives every stanza left
\* the path $BASE_DIR joined with the path relative to the output directory; and the
\* descriptor passed in is left unchanged
C14_UpdatedPaths ==
    /\ [](/\ (entry = "_update_config_with_new_paths" /\ pc = "done") =>
               /\ UpdatedStanzas(circuit.networks.nodes, new_node_files, circuit_config.nodes)
               /\ UpdatedStanzas(circuit.networks.edges, new_edge_files, circuit_config.edges)
               /\ circuit_config.manifest = "./")
    /\ [][circuit' = circuit]_vars

\* a stanza of two populations lost one of them to the sentinel and kept the other, and
\* a stanza whose population has no entry is gone
C14_Witness ==
    /\ entry = "_update_config_with_new_paths"
    /\ pc = "done"
    /\ Len(circuit.networks.edges) = 2
    /\ Len(circuit.networks.edges[1].populations) = 2
    /\ Len(circuit_config.edges) = 1
    /\ Len(circuit_config.edges[1].populations) = 1
    /\ \E population \in Range(circuit.networks.edges[1].populations) :
         /\ population \in Range(new_edge_files.keys)
         /\ new_edge_files.val[population] = DELETED_EMPTY_EDGES_FILE
    /\ \E population \in Range(circuit.networks.edges[2].populations) :
         population \notin Range(new_edge_files.keys)

(***************************************************************************)
(* Properties of the phases of split_subcircuit (SpecSubcircuit).          *)
(***************************************************************************)
\* the node set selected nodes of the population
Extracted(population) == circuit.selected[population] # <<>>

\* the populations of the given name there are in the files
PopulationsNamed(files, name) ==
    {files[f][name] : f \in {g \in DOMAIN files : name \in DOMAIN files[g]}}

\* the source ids of the edge population that are not extracted and have an edge to an
\* extracted target id
ConnectingOutsideIds(name) ==
    LET edge == circuit.edges.val[name]
    IN  {edge.source_node_id[i] :
           i \in {j \in DOMAIN edge.source_node_id :
                    /\ edge.source_node_id[j] \notin Range(circuit.selected[edge.src_pop])
                    /\ edge.target_node_id[j] \in Range(circuit.selected[edge.dst_pop])}}

\* the external phase has been run
ExternalPhaseDone ==
    /\ entry = "split_subcircuit"
    /\ create_external = <<TRUE>>
    /\ pc \in {"virtual", "rewrite", "done"}

\* C15: after the external phase, for every original edge population whose target
\* population is extracted and whose source population is not virtual, the population
\* external_<edge population> holds exactly the source ids that are in no extracted
\* population and have at least one edge to an extracted target id; when there is no
\* such id, no external node population and no external edge population is created
C15_ExternalPopulations ==
    ExternalPhaseDone =>
      \A name \in Range(circuit.edges.keys) :
        LET edge == circuit.edges.val[name]
            new_name == "external_" \o name
            ids == ConnectingOutsideIds(name)
        IN  (circuit.nodes[edge.src_pop].type # "virtual" /\ Extracted(edge.dst_pop)) =>
              IF ids = {}
              THEN /\ new_name \notin Range(id_mapping.keys)
                   /\ new_name \notin Range(new_node_files.keys)
                   /\ new_name \notin Range(new_edge_files.keys)
                   /\ PopulationsNamed(node_files, new_name) = {}
                   /\ PopulationsNamed(edge_files, new_name) = {}
              ELSE /\ new_name \in Range(id_mapping.keys)
                   /\ Range(id_mapping.val[new_name].index) = ids
                   /\ Len(id_mapping.val[new_name].index) = Cardinality(ids)
                   /\ Range(id_mapping.val[new_name].new_id) = 0..(Cardinality(ids) - 1)
                   /\ new_name \in Range(new_node_files.keys)
                   /\ \E population \in PopulationsNamed(node_files, new_name) :
                        Len(population.mtype) = Cardinality(ids)
                   /\ \E population \in PopulationsNamed(edge_files, new_name) :
                        Len(population.source_node_id) > 0

\* one edge population brought an external population, another one with edges none
C15_Witness ==
    /\ ExternalPhaseDone
    /\ \E name \in Range(circuit.edges.keys) :
         /\ ConnectingOutsideIds(name) # {}
         /\ ExternalName(name) \in Range(id_mapping.keys)
    /\ \E name \in Range(circuit.edges.keys) :
         /\ circuit.nodes[circuit.edges.val[name].src_pop].type # "virtual"
         /\ Extracted(circuit.edges.val[name].dst_pop)
         /\ Len(circuit.edges.val[name].source_node_id) > 0
         /\ ConnectingOutsideIds(name) = {}

\* the virtual phase has been run to its end
VirtualPhaseDone ==
    /\ entry = "split_subcircuit"
    /\ do_virtual = <<TRUE>>
    /\ pc \in {"rewrite", "done"}

\* the edge populations the virtual population feeds whose target population is extracted
FedBy(population) ==
    {name \in Range(circuit.edges.keys) :
       /\ circuit.edges.val[name].src_pop = population
       /\ Extracted(circuit.edges.val[name].dst_pop)}

\* the source ids of the edge population with an edge to an extracted target id
ConnectingIds(name) ==
    LET edge == circuit.edges.val[name]
    IN  {edge.source_node_id[i] :
           i \in {j \in DOMAIN edge.source_node_id :
                    edge.target_node_id[j] \in Range(circuit.selected[edge.dst_pop])}}

\* C16: after the virtual phase, the id mapping of a virtual source population holds
\* exactly the virtual source ids with an edge to an extracted target id in at least one
\* of the edge populations it feeds, each id once even when it feeds several target
\* populations, the new ids 0..k-1 given in ascending order of the old ids; the virtual
\* node population written has exactly k nodes
C16_VirtualMapping ==
    VirtualPhaseDone =>
      \A population \in {n \in Range(NodePopulations) : circuit.nodes[n].type = "virtual"} :
        FedBy(population) # {} =>
          LET used == UNION {ConnectingIds(name) : name \in FedBy(population)}
              k == Cardinality(used)
          IN  /\ population \in Range(id_mapping.keys)
              /\ Range(id_mapping.val[population].index) = used
              /\ Len(id_mapping.val[population].index) = k
              /\ IsAscending(id_mapping.val[population].index)
              /\ id_mapping.val[population].new_id = [i \in 1..k |-> i - 1]
              /\ population \in Range(new_node_files.keys)
              /\ new_node_files.val[population] \in DOMAIN node_files
              /\ population \in DOMAIN node_files[new_node_files.val[population]]
              /\ Len(node_files[new_node_files.val[population]][population].mtype) = k

\* a virtual node feeds both target populations and is in the mapping once, next to
\* another virtual node
C16_Witness ==
    /\ VirtualPhaseDone
    /\ circuit.selected["V"] = <<>>
    /\ Cardinality(FedBy("V")) = 2
    /\ "V" \in Range(id_mapping.keys)
    /\ Len(id_mapping.val["V"].index) = 2
    /\ \E id \in Range(id_mapping.val["V"].index) :
         \A name \in FedBy("V") : id \in ConnectingIds(name)

\* every (old id -> new id) entry of id_mapping is an entry of the next id_mapping
EntriesKept ==
    \A population \in Range(id_mapping.keys) :
      /\ population \in Range(id_mapping'.keys)
      /\ \A i \in DOMAIN id_mapping.val[population].index :
           \E j \in DOMAIN id_mapping'.val[population].index :
             /\ id_mapping'.val[population].index[j] = id_mapping.val[population].index[i]
             /\ id_mapping'.val[population].new_id[j] = id_mapping.val[population].new_id[i]

\* C17: within a run of split_subcircuit, an (old id -> new id) entry of a population's
\* id mapping is neither changed nor removed by a later phase (external, virtual): the
\* phases only add populations or entries, whatever the node set, one that selects nodes
\* of a virtual population included
C17_MappingOnlyExtended ==
    [][(entry = "split_subcircuit" /\ pc \in {"biological", "external", "virtual", "rewrite"})
         => EntriesKept]_vars

\* what does hold: the external phase keeps every entry, and so does the virtual phase
\* when the node set selects no node of a virtual population
MappingOnlyExtendedWithoutVirtualSelection ==
    [][(/\ entry = "split_subcircuit"
        /\ pc \in {"biological", "external", "virtual", "rewrite"}
        /\ (pc = "virtual" =>
              \A n \in Range(NodePopulations) :
                circuit.nodes[n].type = "virtual" => ~Extracted(n)))
         => EntriesKept]_vars

(***************************************************************************)
(* The failure of the consistency check of split_population (Spec).        *)
(***************************************************************************)
\* the consistency check of the exhaustive mode has failed
CheckFailed == entry = "split_population" /\ pc = "failed" /\ error = "RuntimeError"

\* the number of input rows from new population src to new population dst
InputEdgeCount(src, dst) ==
    Cardinality({i \in DOMAIN InputRows.source_node_id :
                   /\ InputRows.source_node_id[i] \in Range(id_mapping.val[src].index)
                   /\ InputRows.target_node_id[i] \in Range(id_mapping.val[dst].index)})

\* C18: in exhaustive mode the edge count check runs only after every ordered pair of
\* new populations has been processed; when it fails the non-empty edge files written
\* stay on disk, nothing being cleaned up, the operation ends with the error, and
\* split_population does not write circuit_config.json
C18_FailureLeavesOutput ==
    /\ [](CheckFailed =>
            /\ pairs_done = Len(id_mapping.keys) * Len(id_mapping.keys)
            /\ ~circuit_config.written
            /\ \A src, dst \in Range(id_mapping.keys) :
                 /\ OutputEdgeCount(PairName(src, dst)) = InputEdgeCount(src, dst)
                 /\ InputEdgeCount(src, dst) > 0 =>
                      ("edges_" \o PairName(src, dst) \o ".h5") \in DOMAIN edge_files)
    /\ [][entry = "split_population" =>
            /\ pc # "failed"
            /\ (pc' = "failed" /\ error' = "RuntimeError") =>
                 /\ pairs_done = Len(id_mapping.keys) * Len(id_mapping.keys)
                 /\ edge_files' = edge_files
                 /\ node_files' = node_files
                 /\ circuit_config' = circuit_config]_vars

\* the check failed after the four pairs of two new populations, with the three
\* non-empty edge files on disk
C18_Witness ==
    /\ CheckFailed
    /\ Cardinality(DOMAIN edge_files) = 3
    /\ written_edges = 4
    /\ pairs_done = 4
    /\ ~circuit_config.written

(***************************************************************************)
(* The rows _copy_edge_attributes writes (SpecCopy).                       *)
(***************************************************************************)
\* the positions, ascending, of the input rows whose source id is a key of the source
\* mapping and whose target id is a key of the target mapping
KeptRows ==
    LET orig_edges == edges_file["default"]
    IN  SortedSeq({i \in DOMAIN orig_edges.source_node_id :
                     /\ orig_edges.source_node_id[i] \in Range(id_mapping.val["A"].index)
                     /\ orig_edges.target_node_id[i] \in Range(id_mapping.val["B"].index)})

\* C19: the edge population written by _copy_edge_attributes is exactly the subsequence,
\* in original row order, of the source rows whose source id is a key of src_mapping and
\* whose target id is a key of dst_mapping; output row i carries the remapped source and
\* target ids and every per-edge attribute value (group datasets, dynamics_params
\* datasets) of the same original row, so that every output dataset has the length of
\* the number of rows that passed both tests
C19_RowsCopied ==
    (entry = "_copy_edge_attributes" /\ pc = "done") =>
      LET orig_edges == edges_file["default"]
          orig_group == orig_edges.groups[GROUP_NAME]
          written == edge_files[CopyFile][CopyName]
          new_group == written.groups[GROUP_NAME]
          kept == KeptRows
      IN  /\ written.source_node_id =
               [k \in DOMAIN kept |->
                  NewIdOf(id_mapping.val["A"], orig_edges.source_node_id[kept[k]])]
          /\ written.target_node_id =
               [k \in DOMAIN kept |->
                  NewIdOf(id_mapping.val["B"], orig_edges.target_node_id[kept[k]])]
          /\ DOMAIN new_group.datasets = DOMAIN orig_group.datasets
          /\ \A name \in DOMAIN orig_group.datasets :
               new_group.datasets[name] =
                 [k \in DOMAIN kept |-> orig_group.datasets[name][kept[k]]]
          /\ DOMAIN new_group.subgroups = DOMAIN orig_group.subgroups
          /\ \A name \in DOMAIN orig_group.subgroups :
               /\ DOMAIN new_group.subgroups[name] = DOMAIN orig_group.subgroups[name]
               /\ \A column \in DOMAIN orig_group.subgroups[name] :
                    new_group.subgroups[name][column] =
                      [k \in DOMAIN kept |-> orig_group.subgroups[name][column][kept[k]]]

\* the edges of the test copied through mappings that are not in ascending order: the
\* first and the last row are dropped, the second and the third are written with the
\* attributes they had
C19_Witness ==
    /\ entry = "_copy_edge_attributes"
    /\ pc = "done"
    /\ id_mapping = TestMapping
    /\ KeptRows = <<2, 3>>
    /\ edge_files[CopyFile][CopyName].source_node_id = <<3, 3>>
    /\ edge_files[CopyFile][CopyName].target_node_id = <<0, 0>>
    /\ edge_files[CopyFile][CopyName].groups[GROUP_NAME].datasets["delay"] = <<2, 3>>

\* the indices the window reads of an array of the given length
Clipped(sl, length) == {i \in 0..(length - 1) : sl.start <= i /\ i < sl.stop}

\* C20: for every length L >= 0 and chunk size C >= 1 the windows of
\* _create_chunked_slices, clipped to L, are produced in ascending order, are pairwise
\* disjoint and cover [0, L) exactly, every index in exactly one window; for L = 0 no
\* window is produced and the chunked loop finishes with an empty result
C20_WindowsTile ==
    (entry = "_copy_edge_attributes" /\ pc \in {"copy_loop", "done"}) =>
      LET length == Len(edges_file["default"].source_node_id)
          windows == _create_chunked_slices(length, chunk_size)
          n == Len(windows)
      IN  /\ chunk_size >= 1
          /\ \A k \in 1..(n - 1) : windows[k].start < windows[k + 1].start
          /\ \A k, l \in 1..n : k # l => Clipped(windows[k], length)
                                           \cap Clipped(windows[l], length) = {}
          /\ UNION {Clipped(windows[k], length) : k \in 1..n} = 0..(length - 1)
          /\ \A i \in 0..(length - 1) :
               Cardinality({k \in 1..n : i \in Clipped(windows[k], length)}) = 1
          /\ \A k \in 1..n : Clipped(windows[k], length) # {}
          /\ Len(windows_left) <= n
          /\ windows_left = SubSeq(windows, n - Len(windows_left) + 1, n)
          /\ length = 0 =>
               /\ n = 0
               /\ pc = "done" => edge_files[CopyFile][CopyName].source_node_id = <<>>

\* the loop is at its last window, and that window reaches beyond the array: one row
\* read in a window of two, say
C20_Witness ==
    /\ entry = "_copy_edge_attributes"
    /\ pc = "copy_loop"
    /\ Len(windows_left) = 1
    /\ windows_left[1].stop > Len(edges_file["default"].source_node_id)
    /\ chunk_size < H5_READ_CHUNKSIZE

(***************************************************************************)
(* _isin step by step: the single call of np.isin, or the windows handed   *)
(* to the workers of joblib's Parallel, which finish in any order and      *)
(* whose results Parallel returns in the order the tasks were submitted.   *)
(***************************************************************************)
\* an array of runs: each value of s repeated run times
Stretch(s, run) == [i \in 1..(Len(s) * run) |-> s[((i - 1) \div run) + 1]]

\* the run lengths tried: arrays shorter than a window of 500, arrays whose windows
\* hold two runs, arrays with one run per window
IsinRuns == {1, 250, 500}

\* the arguments of _isin and the H5_READ_CHUNKSIZE of the environment
IsinInit ==
    /\ entry = "_isin"
    /\ nodes_file = <<>>
    /\ node_set_ids = <<>>
    /\ edges_file = <<>>
    /\ pc = "start"
    /\ circuit \in {[elements |-> Stretch(s, run), test_elements |-> t, invert |-> i,
                     h5_chunksize |-> c] :
                      s \in SeqsUpTo(0..1, MaxWindows), run \in IsinRuns,
                      t \in NodeSetIds(2), i \in BOOLEAN, c \in ChunkSizes}
    /\ id_mapping = EmptyDict
    /\ create_external = <<>>
    /\ do_virtual = <<>>
    /\ new_node_files = EmptyDict
    /\ new_edge_files = EmptyDict
    /\ mapping_file = <<>>
    /\ node_sets_file = <<>>
    /\ NothingWritten
    /\ NoScan

\* lines 46-47: the array is shorter than the read chunk size
IsinSingleCall ==
    /\ entry = "_isin"
    /\ pc = "start"
    /\ Len(circuit.elements) < circuit.h5_chunksize
    /\ ret' = [i \in DOMAIN circuit.elements |->
                 (circuit.elements[i] \in Range(circuit.test_elements)) # circuit.invert]
    /\ pc' = "done"
    /\ UNCHANGED <<inputs, subcircuit, id_mapping, split_populations, node_files,
                   edge_files, pairs_done, written_edges, error, circuit_config,
                   chunk_size, windows_left, wanted_src_ids, wanted_dst_ids>>

\* lines 49-59: the tasks are submitted in window order; none has returned yet
IsinDispatch ==
    /\ entry = "_isin"
    /\ pc = "start"
    /\ Len(circuit.elements) >= circuit.h5_chunksize
    /\ chunk_size' = Max(500, circuit.h5_chunksize \div 500)
    /\ windows_left' = _create_chunked_slices(Len(circuit.elements), chunk_size')
    /\ ret' = [k \in DOMAIN windows_left' |-> <<>>]
    /\ pc' = "parallel"
    /\ UNCHANGED <<inputs, subcircuit, id_mapping, split_populations, node_files,
                   edge_files, pairs_done, written_edges, error, circuit_config,
                   wanted_src_ids, wanted_dst_ids>>

\* lines 37-39, 56-59: a worker returns; its result takes the place of its task
IsinWorkerReturns ==
    /\ entry = "_isin"
    /\ pc = "parallel"
    /\ \E k \in DOMAIN ret :
         /\ ret[k] = <<>>
         /\ ret' = [ret EXCEPT ![k] = <<_isin_worker(circuit.elements, circuit.test_elements,
                                                     windows_left[k], circuit.invert)>>]
    /\ UNCHANGED <<inputs, subcircuit, id_mapping, split_populations, node_files,
                   edge_files, pairs_done, written_edges, error, circuit_config,
                   chunk_size, windows_left, wanted_src_ids, wanted_dst_ids, pc>>

\* lines 61-63: every worker has returned
IsinConcatenate ==
    /\ entry = "_isin"
    /\ pc = "parallel"
    /\ \A k \in DOMAIN ret : ret[k] # <<>>
    /\ ret' = Concatenate([k \in DOMAIN ret |-> ret[k][1]])
    /\ pc' = "done"
    /\ UNCHANGED <<inputs, subcircuit, id_mapping, split_populations, node_files,
                   edge_files, pairs_done, written_edges, error, circuit_config,
                   chunk_size, windows_left, wanted_src_ids, wanted_dst_ids>>

IsinNext ==
    \/ IsinSingleCall
    \/ IsinDispatch
    \/ IsinWorkerReturns
    \/ IsinConcatenate

SpecIsin == IsinInit /\ [][IsinNext]_vars

\* the membership mask of the whole array, tested at once
WholeMask ==
    [i \in DOMAIN circuit.elements |->
       (circuit.elements[i] \in Range(circuit.test_elements)) # circuit.invert]

\* what has been returned so far is, window by window, the mask of that window's rows
ReturnedInWindowOrder ==
    \A k \in DOMAIN ret :
      ret[k] # <<>> =>
        ret[k][1] = [i \in 1..(Min(windows_left[k].stop, Len(circuit.elements))
                                  - windows_left[k].start) |->
                       WholeMask[windows_left[k].start + i]]

\* C21: the mask returned by _isin equals the membership (or, with invert,
\* non-membership) mask of the whole array tested at once, whether it takes the
\* single-call path or the parallel path, and for every order in which the parallel
\* workers finish: per-window results are concatenated in window order, and no worker
\* modifies the array or the needle set
C21_IsinDeterministic ==
    /\ []((entry = "_isin" /\ pc = "done") => ret = WholeMask)
    /\ []((entry = "_isin" /\ pc = "parallel") => ReturnedInWindowOrder)
    /\ [][entry = "_isin" => circuit' = circuit]_vars

\* three windows, of which the last worker has returned before the first two, over an
\* array whose windows have different masks
C21_Witness ==
    /\ entry = "_isin"
    /\ pc = "parallel"
    /\ Len(ret) = 3
    /\ ret[1] = <<>>
    /\ ret[2] = <<>>
    /\ ret[3] # <<>>
    /\ circuit.invert
    /\ \E i \in DOMAIN ret[3][1] : ret[3][1][i] # WholeMask[1]

(***************************************************************************)
(* The mapping _get_subcircuit_external_ids grows (SpecExternalIds).       *)
(***************************************************************************)
\* an id mapping of k distinct old ids whose new ids are exactly 0..k-1
WellNumbered(df) ==
    /\ Len(df.new_id) = Len(df.index)
    /\ IsInjective(df.index)
    /\ IsInjective(df.new_id)
    /\ Range(df.new_id) = 0..(Len(df.index) - 1)

\* the wanted source ids the window at the head of windows_left finds: the sources of its
\* rows that go from a wanted source to a wanted target
FoundInWindow ==
    LET sl == Head(windows_left)
        sgids == Slice(edges_file["default"].source_node_id, sl)
        tgids == Slice(edges_file["default"].target_node_id, sl)
    IN  {sgids[i] : i \in {j \in DOMAIN sgids : /\ sgids[j] \in Range(wanted_src_ids)
                                                 /\ tgids[j] \in Range(wanted_dst_ids)}}

\* one window later: the rows the mapping had are the first rows still, the rows after
\* them are the ids of the window the mapping did not hold, numbered upwards from
\* max(existing) + 1
ExtendedByWindow ==
    LET known == IF ret.none THEN {} ELSE Range(ret.index)
        old_rows == IF ret.none THEN 0 ELSE Len(ret.index)
        start_id == IF ret.none THEN 0 ELSE SeqMax(ret.new_id) + 1
        fresh == SortedSeq(FoundInWindow \ known)
    IN  IF FoundInWindow = {} THEN ret' = ret
        ELSE /\ ~ret'.none
             /\ Len(ret'.index) = old_rows + Len(fresh)
             /\ Len(ret'.new_id) = old_rows + Len(fresh)
             /\ \A i \in 1..old_rows : /\ ret'.index[i] = ret.index[i]
                                       /\ ret'.new_id[i] = ret.new_id[i]
             /\ \A i \in DOMAIN fresh : /\ ret'.index[old_rows + i] = fresh[i]
                                        /\ ret'.new_id[old_rows + i] = start_id + (i - 1)

\* C22: while _get_subcircuit_external_ids extends a mapping window by window, ids found
\* in a later window that are already in the mapping are skipped and keep their new id,
\* each newly found id gets the next new id starting at max(existing)+1, and after any
\* number of windows the mapping is injective with new ids forming exactly 0..k-1 for k
\* distinct old ids
C22_MappingExtended ==
    /\ []((entry = "_get_subcircuit_external_ids" /\ pc = "external_loop" /\ ~ret.none)
           => WellNumbered(ret))
    /\ []((entry = "_get_subcircuit_external_ids" /\ pc = "done") => WellNumbered(ret))
    /\ [][(entry = "_get_subcircuit_external_ids" /\ pc = "external_loop"
           /\ windows_left # <<>>) => ExtendedByWindow]_vars

\* the second window of two rows has been read: it held id 1, which the mapping had and
\* which kept new id 0, and id 0, which was appended with new id 1
C22_Witness ==
    /\ entry = "_get_subcircuit_external_ids"
    /\ pc = "external_loop"
    /\ edges_file = EdgesFile("single", RevisitEdges)
    /\ chunk_size = 2
    /\ windows_left = <<>>
    /\ ~ret.none
    /\ ret.index = <<1, 0>>
    /\ ret.new_id = <<0, 1>>

(***************************************************************************)
(* One output edge population step by step: the with-block that holds the  *)
(* output file open (lines 273-286 of _write_edges, 453-467 of             *)
(* _write_subcircuit_edges), its exit, and what follows the exit (lines    *)
(* 288-294, 470-476).  pc is "open" and "copied" inside the with-block,    *)
(* "closed" once the block has been left; ret holds the locals edge_count, *)
(* sgid_count, tgid_count and is_file_empty.                               *)
(***************************************************************************)
\* an indexed population the output file of _write_subcircuit_edges holds already
OtherPopulation ==
    [InPopulation("A", "A", <<0>>, <<0>>, {GROUP_NAME}) EXCEPT !.indices = <<1, 1>>]

\* the output file of the pair before it is opened: none, or one with a population
OutputFilesBefore == {<<>>, [f \in {CopyFile} |-> [n \in {"A"} |-> OtherPopulation]]}

\* the mappings of a population split of which one new population holds every node, or
\* every node but one
NearlyWhole == {mapping \in Mappings(NodeIds) : Len(mapping.index) >= MaxNodes - 1}

IndexInit ==
    /\ entry \in {"_write_edges", "_write_subcircuit_edges"}
    /\ nodes_file = <<>>
    /\ node_set_ids = <<>>
    /\ \/ /\ edges_file \in {EdgesFile("single", e) : e \in SeqsUpTo(NodeIds \X NodeIds, MaxEdges)}
          /\ id_mapping \in {[keys |-> <<"A", "B">>,
                              val  |-> [n \in {"A", "B"} |-> IF n = "A" THEN a ELSE b]] :
                               a \in NearlyWhole, b \in NearlyWhole}
       \/ /\ edges_file = EdgesFile("single", TestEdges)
          /\ id_mapping = TestMapping
    /\ pc = "start"
    /\ split_populations = EmptyDict
    /\ node_files = <<>>
    /\ edge_files \in OutputFilesBefore
    /\ pairs_done = 0
    /\ written_edges = 0
    /\ error = "none"
    /\ circuit_config = NoConfig
    /\ NoScan
    /\ NoSubcircuit

\* lines 273, 453: h5py.File(edge_file_name, 'w') truncates, h5py.File(output_path, 'a')
\* keeps what the file holds
EdgeFileOpen ==
    /\ entry \in {"_write_edges", "_write_subcircuit_edges"}
    /\ pc = "start"
    /\ edge_files' = IF entry = "_write_subcircuit_edges" /\ CopyFile \in DOMAIN edge_files
                     THEN edge_files
                     ELSE Put(edge_files, CopyFile, <<>>)
    /\ pc' = "open"
    /\ UNCHANGED <<inputs, subcircuit, scan, split_populations, id_mapping, node_files,
                   pairs_done, written_edges, error, circuit_config>>

\* lines 274-285, 454-467: the copy, the counts, and in _write_subcircuit_edges the
\* deletion of a population without edges
EdgeFileCopy ==
    /\ entry \in {"_write_edges", "_write_subcircuit_edges"}
    /\ pc = "open"
    /\ \E env_chunksize \in ChunkSizes :
         \E copy \in {_copy_edge_attributes(edges_file, edge_files[CopyFile], "A", "B",
                                            "default", CopyName, id_mapping.val["A"],
                                            id_mapping.val["B"], <<>>, env_chunksize)} :
           IF copy.err # "none"
           THEN /\ edge_files' = Put(edge_files, CopyFile, copy.h5out)
                /\ error' = copy.err
                /\ pc' = "failed"
                /\ UNCHANGED ret
           ELSE \E counts \in {_get_node_counts(copy.h5out, CopyName)} :
                  \E h5out \in {IF entry = "_write_subcircuit_edges" /\ counts[1] = 0
                                THEN Drop(copy.h5out, CopyName) ELSE copy.h5out} :
                    /\ edge_files' = Put(edge_files, CopyFile, h5out)
                    /\ ret' = [edge_count |-> counts[1], sgid_count |-> counts[2],
                               tgid_count |-> counts[3],
                               is_file_empty |-> /\ entry = "_write_subcircuit_edges"
                                                 /\ counts[1] = 0
                                                 /\ DOMAIN h5out = {}]
                    /\ pc' = "copied"
                    /\ UNCHANGED error
    /\ UNCHANGED <<inputs, subcircuit, split_populations, id_mapping, node_files,
                   pairs_done, written_edges, circuit_config, chunk_size, windows_left,
                   wanted_src_ids, wanted_dst_ids>>

\* the with-block is left: the output file is closed
EdgeFileClose ==
    /\ entry \in {"_write_edges", "_write_subcircuit_edges"}
    /\ pc = "copied"
    /\ pc' = "closed"
    /\ UNCHANGED <<inputs, subcircuit, scan, split_populations, id_mapping, node_files,
                   edge_files, pairs_done, written_edges, error, circuit_config>>

\* lines 288-291, 470-472
EdgeFileIndex ==
    /\ entry \in {"_write_edges", "_write_subcircuit_edges"}
    /\ pc = "closed"
    /\ ret.edge_count > 0
    /\ edge_files' = Put(edge_files, CopyFile,
                         _write_indexes(edge_files[CopyFile], CopyName, ret.sgid_count,
                                        ret.tgid_count))
    /\ written_edges' = IF entry = "_write_edges" THEN written_edges + ret.edge_count
                        ELSE written_edges
    /\ pc' = "done"
    /\ UNCHANGED <<inputs, subcircuit, scan, split_populations, id_mapping, node_files,
                   pairs_done, error, circuit_config>>

\* lines 292-294, 473-476: os.unlink of the file without edges (_write_edges), of the
\* file without populations (_write_subcircuit_edges)
EdgeFileRemove ==
    /\ entry \in {"_write_edges", "_write_subcircuit_edges"}
    /\ pc = "closed"
    /\ ret.edge_count = 0
    /\ edge_files' = IF entry = "_write_edges" \/ ret.is_file_empty
                     THEN Drop(edge_files, CopyFile)
                     ELSE edge_files
    /\ pc' = "done"
    /\ UNCHANGED <<inputs, subcircuit, scan, split_populations, id_mapping, node_files,
                   pairs_done, written_edges, error, circuit_config>>

IndexNext ==
    \/ EdgeFileOpen
    \/ EdgeFileCopy
    \/ EdgeFileClose
    \/ EdgeFileIndex
    \/ EdgeFileRemove

SpecIndex == IndexInit /\ [][IndexNext]_vars

\* the output file is open: control is inside the with-block
OutputFileOpen == pc \in {"open", "copied"}

\* the population of the pair is in the output directory
PairOnDisk(files) == CopyFile \in DOMAIN files /\ CopyName \in DOMAIN files[CopyFile]

\* the range indices of the population of the pair are in the output file
PairIndexed(files) == PairOnDisk(files) /\ files[CopyFile][CopyName].indices # <<>>

\* C23: for every written edge population, the range indices are written iff its edge
\* count is > 0, only after the output file has been closed, with source_node_count =
\* max(written source ids)+1 and target_node_count = max(written target ids)+1; when the
\* edge count is 0 the counts are 0, no index is written, and the population (or file)
\* is removed instead
C23_IndexedAfterClose ==
    /\ []((entry \in {"_write_edges", "_write_subcircuit_edges"} /\ pc = "done") =>
            LET kept == KeptRows
            IN  /\ PairIndexed(edge_files) <=> Len(kept) > 0
                /\ ret.edge_count = Len(kept)
                /\ Len(kept) > 0 =>
                     LET written == edge_files[CopyFile][CopyName]
                     IN  /\ Len(written.source_node_id) = Len(kept)
                         /\ written.indices[1] = SeqMax(written.source_node_id) + 1
                         /\ written.indices[2] = SeqMax(written.target_node_id) + 1
                         /\ ret.sgid_count = written.indices[1]
                         /\ ret.tgid_count = written.indices[2]
                /\ Len(kept) = 0 =>
                     /\ ret.sgid_count = 0
                     /\ ret.tgid_count = 0
                     /\ ~PairOnDisk(edge_files)
                     /\ entry = "_write_edges" => CopyFile \notin DOMAIN edge_files
                     /\ CopyFile \in DOMAIN edge_files => DOMAIN edge_files[CopyFile] # {})
    /\ []((entry \in {"_write_edges", "_write_subcircuit_edges"} /\ OutputFileOpen)
            => ~PairIndexed(edge_files))
    /\ [][(entry \in {"_write_edges", "_write_subcircuit_edges"}
           /\ ~PairIndexed(edge_files) /\ PairIndexed(edge_files'))
            => (~OutputFileOpen /\ pc = "closed")]_vars

\* the edges of the test written through the mappings of the test: the two rows kept
\* have source id 3 and target id 0, so the indices are built for 4 source nodes and 1
\* target node
C23_Witness ==
    /\ entry = "_write_edges"
    /\ pc = "done"
    /\ id_mapping = TestMapping
    /\ PairIndexed(edge_files)
    /\ edge_files[CopyFile][CopyName].source_node_id = <<3, 3>>
    /\ edge_files[CopyFile][CopyName].indices = <<4, 1>>

\* an edge population without edges has been deleted from a file that holds another
\* population: the file stays, nothing was indexed
PopulationRemovedFileKept ==
    /\ entry = "_write_subcircuit_edges"
    /\ pc = "done"
    /\ ret.edge_count = 0
    /\ CopyFile \in DOMAIN edge_files
    /\ DOMAIN edge_files[CopyFile] = {"A"}

(***************************************************************************)
(* _write_edges on its own, called as test__write_edges calls it: the id   *)
(* mapping is an argument, and so are the names of the new populations.    *)
(***************************************************************************)
\* new population names, in ascending order; one of them has the form of the name
\* _get_population_name gives the pair of the other two
PairPopulations == <<"A", "A__B__chemical", "B">>

\* the id mappings of the new populations named, every node id in exactly one of them
IdMappingsOver(keys) ==
    {[keys |-> keys,
      val  |-> [n \in Range(keys) |->
                  [index |-> SortedSeq({i \in NodeIds : owner[i] = n}),
                   new_id |-> arange(Cardinality({i \in NodeIds : owner[i] = n}))]]] :
       owner \in [NodeIds -> Range(keys)]}

\* the nodes of the test with node 0 in A and nodes 1 and 2 in B
PairTestMapping ==
    [keys |-> PairPopulations,
     val  |-> [n \in Range(PairPopulations) |->
                 CASE n = "A" -> [index |-> <<0>>, new_id |-> arange(1)]
                   [] n = "B" -> [index |-> <<1, 2>>, new_id |-> arange(2)]
                   [] OTHER   -> [index |-> <<>>, new_id |-> <<>>]]]

WriteEdgesInit ==
    /\ entry = "_write_edges"
    /\ nodes_file = <<>>
    /\ node_set_ids = <<>>
    /\ \/ /\ edges_file \in {EdgesFile("single", e) :
                               e \in SeqsUpTo(NodeIds \X NodeIds, MaxPairEdges)}
          /\ id_mapping \in UNION {IdMappingsOver(SelectSeq(PairPopulations,
                                                            LAMBDA n : n \in S)) :
                                     S \in (SUBSET Range(PairPopulations)) \ {{}}}
       \/ /\ edges_file = EdgesFile("single", TestEdges)
          /\ id_mapping = PairTestMapping
    /\ pc = "write_edges"
    /\ NothingWritten
    /\ NoScan
    /\ NoSubcircuit

WriteEdgesNext ==
    \/ WriteEdgesPair
    \/ CheckAllEdgesUsed

SpecWriteEdges == WriteEdgesInit /\ [][WriteEdgesNext]_vars

\* the ordered pairs of new populations
OrderedPairs == Range(id_mapping.keys) \X Range(id_mapping.keys)

\* distinct ordered pairs have distinct edge population names and distinct file names
PairNamesDistinct ==
    \A p, q \in OrderedPairs :
      p # q => /\ PairName(p[1], p[2]) # PairName(q[1], q[2])
               /\ _get_edge_file_name(PairName(p[1], p[2]))
                    # _get_edge_file_name(PairName(q[1], q[2]))

\* every pair has been processed, and the edges of every pair are on disk in the
\* population and the file named after the pair
PairsOnDisk ==
    /\ pairs_done = Cardinality(OrderedPairs)
    /\ \A p \in OrderedPairs :
         OutputEdgeCount(PairName(p[1], p[2])) = InputEdgeCount(p[1], p[2])

\* C24: in _write_edges every ordered pair (src,dst) of new populations, self-pairs
\* included, is processed exactly once and is written to an output file that no other
\* pair writes to: distinct ordered pairs always get distinct edge population names and
\* file names, for any set of population names (including names that contain '__'), so
\* no pair's output is overwritten by a later pair
C24_PairsOwnTheirFiles ==
    entry = "_write_edges" =>
      /\ PairNamesDistinct
      /\ pc = "done" => PairsOnDisk

\* the same for new populations whose names do not have the form src__dst__chemical
PairsOwnTheirFilesUnlessNamedAsPair ==
    (entry = "_write_edges" /\ "A__B__chemical" \notin Range(id_mapping.keys)) =>
      /\ PairNamesDistinct
      /\ pc = "done" => PairsOnDisk

\* the edges from A to B were written and counted, then lost: the pair of the population
\* A__B__chemical with itself opened the same file anew and, having no edge, removed it
PairOutputLost ==
    /\ entry = "_write_edges"
    /\ pc = "done"
    /\ error = "none"
    /\ id_mapping = PairTestMapping
    /\ written_edges = 4
    /\ InputEdgeCount("A", "B") = 2
    /\ _get_edge_file_name(_get_population_name("A", "B")) \notin DOMAIN edge_files

(***************************************************************************)
(* The audit file under the optional phases (SpecSubcircuit).              *)
(***************************************************************************)
\* what _write_mapping records of an id mapping
Audited(df) == [old_id |-> df.index, new_id |-> df.new_id]

\* the id mapping split_subcircuit builds before any phase runs: what a run without
\* optional phases records
MappingWithoutPhases == _get_node_id_mapping(SubcircuitSplit(circuit))

\* the id mapping after the virtual phase of a run without the external phase
MappingWithoutExternal ==
    LET names == virtual_populations(circuit, MappingWithoutPhases)
        used == UsedSourcesFrom(names, EmptyDict, circuit, MappingWithoutPhases)
    IN  VirtualMappingFrom(used.keys, used, MappingWithoutPhases)

\* the run has completed and has written the audit file
AuditWritten == entry = "split_subcircuit" /\ pc = "done"

\* the audit file records every extracted population as a run without optional phases
\* records it
ExtractedAuditedAlike ==
    \A population \in Range(MappingWithoutPhases.keys) :
      /\ population \in Range(mapping_file.keys)
      /\ mapping_file.val[population] = Audited(MappingWithoutPhases.val[population])

\* the audit file records every virtual population as a run with the virtual phase and
\* without the external phase records it
VirtualAuditedAlike ==
    \A population \in Range(NodePopulations) :
      circuit.nodes[population].type = "virtual" =>
        /\ population \in Range(mapping_file.keys)
             <=> population \in Range(MappingWithoutExternal.keys)
        /\ population \in Range(mapping_file.keys) =>
             mapping_file.val[population] = Audited(MappingWithoutExternal.val[population])

\* C25: for a fixed circuit and node set, the id mappings of the extracted populations
\* recorded in the audit file are identical for all four combinations of do_virtual and
\* create_external, and the id mapping of each virtual population is the same whether or
\* not create_external is enabled
C25_FlagsLeaveMappings ==
    AuditWritten =>
      /\ ExtractedAuditedAlike
      /\ do_virtual = <<TRUE>> => VirtualAuditedAlike

\* the same for the node sets that select no node of a virtual population
FlagsLeaveMappingsWithoutVirtualSelection ==
    (AuditWritten /\ circuit.selected["V"] = <<>>) =>
      /\ ExtractedAuditedAlike
      /\ do_virtual = <<TRUE>> => VirtualAuditedAlike

\* the virtual population is recorded alike with and without the external phase,
\* whatever the node set
VirtualMappingWithoutRegardToExternal ==
    (AuditWritten /\ do_virtual = <<TRUE>>) => VirtualAuditedAlike

\* node 0 of B and node 0 of V extracted, the node file of V not being V/nodes.h5: the
\* run with the virtual phase has completed, and its audit file records no node of V
AuditDiffersWithVirtualPhase ==
    /\ AuditWritten
    /\ circuit \in RenamedVirtualCircuits
    /\ circuit.selected["B"] = <<0>>
    /\ circuit.selected["V"] = <<0>>
    /\ do_virtual = <<TRUE>>
    /\ mapping_file.val["V"].old_id = <<>>
    /\ MappingWithoutPhases.val["V"].index = <<0>>

(***************************************************************************)
(* The output descriptor against the output directory (SpecSubcircuit).    *)
(***************************************************************************)
\* the descriptor lists the population in a stanza whose file is the given file of the
\* output directory
ListedUnder(stanzas, population, file) ==
    \E k \in DOMAIN stanzas :
      /\ stanzas[k].file = PathJoin("$BASE_DIR", file)
      /\ population \in Range(stanzas[k].populations)

\* every population of the files is listed under its file
AllListed(stanzas, files) ==
    \A file \in DOMAIN files :
      \A population \in DOMAIN files[file] : ListedUnder(stanzas, population, file)

\* the populations the external phase synthesizes
ExternalNames == {ExternalName(name) : name \in Range(circuit.edges.keys)}

\* every population of the files that the external phase did not synthesize is listed
\* under its file
AllButExternalListed(stanzas, files) ==
    \A file \in DOMAIN files :
      \A population \in (DOMAIN files[file]) \ ExternalNames :
        ListedUnder(stanzas, population, file)

\* C26: after split_subcircuit, every node population and edge population that was
\* written to the output directory, including the external_<name> populations created by
\* the external phase, is listed in the output descriptor under the file it was written
\* to
C26_WrittenPopulationsListed ==
    (entry = "split_subcircuit" /\ pc = "done") =>
      /\ AllListed(circuit_config.nodes, node_files)
      /\ AllListed(circuit_config.edges, edge_files)

\* the same without the populations of the external phase, for the node sets that
\* select no node of a virtual population and the circuits in which no two virtual node
\* populations share a node file
WrittenPopulationsListedButExternal ==
    (/\ entry = "split_subcircuit" /\ pc = "done"
     /\ circuit.selected["V"] = <<>> /\ circuit \notin SharedVirtualCircuits) =>
      /\ AllButExternalListed(circuit_config.nodes, node_files)
      /\ AllButExternalListed(circuit_config.edges, edge_files)

\* the external phase has written a node population and an edge population, and the run
\* has completed with a descriptor that lists neither
ExternalPopulationsUnlisted ==
    /\ entry = "split_subcircuit"
    /\ pc = "done"
    /\ create_external = <<TRUE>>
    /\ \E name \in ExternalNames :
         /\ PopulationsNamed(node_files, name) # {}
         /\ PopulationsNamed(edge_files, name) # {}
         /\ \A k \in DOMAIN circuit_config.nodes :
              name \notin Range(circuit_config.nodes[k].populations)
         /\ \A k \in DOMAIN circuit_config.edges :
              name \notin Range(circuit_config.edges[k].populations)

(***************************************************************************)
(* The node files against the id mapping (Spec).                           *)
(***************************************************************************)
\* C27: for every new node population produced by a partition, the node written at new
\* id k carries the attributes of the original node whose old id the id mapping sends to
\* k: the row order of the written node file and the id mapping agree, although they
\* are computed by separate steps (_write_nodes and _get_node_id_mapping)
C27_NodeRowsFollowMapping ==
    (entry \in {"split_population", "simple_split_subcircuit"} /\ MappingBuilt) =>
      \A population \in Range(id_mapping.keys) :
        LET file == _get_node_file_name(population)
            df == id_mapping.val[population]
        IN  /\ file \in DOMAIN node_files
            /\ population \in DOMAIN node_files[file]
            /\ Len(node_files[file][population].mtype) = Len(df.index)
            /\ \A i \in DOMAIN df.index :
                 node_files[file][population].mtype[df.new_id[i] + 1]
                   = nodes_file[df.index[i] + 1]

\* the node set of nodes 0 and 1 of the nodes of the test, which differ in their
\* attribute: the population written holds the attribute of node 0 at new id 0 and the
\* attribute of node 1 at new id 1
C27_Witness ==
    /\ entry = "simple_split_subcircuit"
    /\ MappingBuilt
    /\ nodes_file = TestNodes
    /\ id_mapping.val[node_set_name].index = <<0, 1>>
    /\ node_files[_get_node_file_name(node_set_name)][node_set_name].mtype = <<"L2_X", "L6_Y">>

(***************************************************************************)
(* The edge populations of the external phase (SpecSubcircuit).            *)
(***************************************************************************)
\* the source ids of the edge population are node ids of a node population of that
\* name in the node files
SourcesWithin(edges, name) ==
    \E nodes \in PopulationsNamed(node_files, name) :
      \A i \in DOMAIN edges.source_node_id :
        edges.source_node_id[i] < Len(nodes.mtype)

\* C28: every edge population written by the external phase declares as its source node
\* population the synthesized node population external_<name> (the one written as a
\* node file and registered in the id mapping under that name), so each of its source
\* ids, paired with the declared source population name, refers to a node of that
\* synthesized population
C28_ExternalSourceDeclared ==
    ExternalPhaseDone =>
      \A name \in ExternalNames :
        \A edges \in PopulationsNamed(edge_files, name) :
          /\ name \in Range(id_mapping.keys)
          /\ PopulationsNamed(node_files, name) # {}
          /\ edges.src_pop = name
          /\ SourcesWithin(edges, edges.src_pop)

\* what holds of the edge populations of the external phase: the source ids are ids of
\* the synthesized node population, the target ids are new ids of the extracted target
\* population, and the source population declared is the one of the original edge
\* population
ExternalSourceIdsSynthesized ==
    ExternalPhaseDone =>
      \A original \in Range(circuit.edges.keys) :
        \A edges \in PopulationsNamed(edge_files, ExternalName(original)) :
          /\ ExternalName(original) \in Range(id_mapping.keys)
          /\ SourcesWithin(edges, ExternalName(original))
          /\ edges.src_pop = circuit.edges.val[original].src_pop
          /\ edges.dst_pop = circuit.edges.val[original].dst_pop

\* node 1 of A extracted with both nodes of B: the edge population external_A__B holds
\* the edge from node 0 of A, declares A as its source population, and its source id 0
\* is, in the output, the id of node 1 of A
ExternalSourceMisdeclared ==
    /\ ExternalPhaseDone
    /\ pc = "done"
    /\ circuit.selected["A"] = <<1>>
    /\ \E edges \in PopulationsNamed(edge_files, ExternalName("A__B")) :
         /\ edges.src_pop = "A"
         /\ edges.source_node_id = <<0>>
    /\ id_mapping.val[ExternalName("A__B")].index = <<0>>
    /\ id_mapping.val["A"].index = <<1>>

(***************************************************************************)
(* The paths of the output descriptor (SpecSubcircuit).  new_node_files    *)
(* and new_edge_files hold, for every population, the path its writer      *)
(* returned.                                                               *)
(***************************************************************************)
\* every stanza has, for every population it lists, the path the population was written
\* to
StanzaPathsWritten(stanzas, new_population_files) ==
    \A k \in DOMAIN stanzas :
      \A population \in Range(stanzas[k].populations) :
        /\ population \in Range(new_population_files.keys)
        /\ stanzas[k].file = PathJoin("$BASE_DIR", new_population_files.val[population])

\* C29: after split_subcircuit, for every stanza of the output descriptor and every
\* population listed in it, the stanza's file path is the path of the file that
\* population was actually written to; this holds also for stanzas listing several
\* populations, e.g. several virtual node populations that shared one input file
C29_StanzaPathsWritten ==
    (entry = "split_subcircuit" /\ pc = "done") =>
      /\ StanzaPathsWritten(circuit_config.nodes, new_node_files)
      /\ StanzaPathsWritten(circuit_config.edges, new_edge_files)

\* the same for the circuits in which no two virtual node populations share a node file
StanzaPathsWrittenUnlessVirtualShared ==
    (entry = "split_subcircuit" /\ pc = "done" /\ circuit \notin SharedVirtualCircuits) =>
      /\ StanzaPathsWritten(circuit_config.nodes, new_node_files)
      /\ StanzaPathsWritten(circuit_config.edges, new_edge_files)

\* the edge stanzas have the paths written in every circuit
EdgeStanzaPathsWritten ==
    (entry = "split_subcircuit" /\ pc = "done") =>
      StanzaPathsWritten(circuit_config.edges, new_edge_files)

\* V and W shared virtual/nodes.h5: V was written to V/nodes.h5, W to W/nodes.h5, and
\* the stanza that lists both has the path of W
SharedStanzaHasLastPath ==
    /\ entry = "split_subcircuit"
    /\ pc = "done"
    /\ circuit \in SharedVirtualCircuits
    /\ "V" \in Range(new_node_files.keys)
    /\ new_node_files.val["V"] = "V/nodes.h5"
    /\ "V/nodes.h5" \in DOMAIN node_files
    /\ "W/nodes.h5" \in DOMAIN node_files
    /\ "V" \in DOMAIN node_files["V/nodes.h5"]
    /\ \E k \in DOMAIN circuit_config.nodes :
         /\ circuit_config.nodes[k].populations = <<"V", "W">>
         /\ circuit_config.nodes[k].file = "$BASE_DIR/W/nodes.h5"
    /\ "V" \notin DOMAIN node_files["W/nodes.h5"]

(***************************************************************************)
(* The edges of the biological and of the external phase together          *)
(* (SpecSubcircuit).  The column delay of an input population holds the    *)
(* positions of its rows, so that the column written tells the rows that   *)
(* were copied.                                                            *)
(***************************************************************************)
\* the rows of the input an output edge population of the given name was written from,
\* none when no file holds such a population
RowsWritten(name) ==
    LET populations == PopulationsNamed(edge_files, name)
    IN  IF populations = {} THEN <<>>
        ELSE (CHOOSE population \in populations : TRUE).groups[GROUP_NAME].datasets["delay"]

\* the rows of the original edge population that have an extracted target id and a
\* source id that is extracted (is not extracted), in the order of the input
RowsToExtracted(name, source_extracted) ==
    LET edge == circuit.edges.val[name]
        wanted(i) == /\ edge.target_node_id[i] \in Range(circuit.selected[edge.dst_pop])
                     /\ (edge.source_node_id[i] \in Range(circuit.selected[edge.src_pop]))
                          = source_extracted
    IN  SelectSeq(arange(Len(edge.source_node_id) + 1), LAMBDA i : i > 0 /\ wanted(i))

\* C30: with create_external enabled, for each original edge population with a
\* non-virtual source and an extracted target population, every original edge whose
\* target id is extracted is written exactly once: to the biological output population
\* if its source id is also extracted, otherwise to the external_<name> population; no
\* edge is written to both, and no edge whose target id is not extracted is written to
\* either
C30_EdgesWrittenOnce ==
    ExternalPhaseDone =>
      \A name \in Range(circuit.edges.keys) :
        LET edge == circuit.edges.val[name]
        IN  (circuit.nodes[edge.src_pop].type # "virtual" /\ Extracted(edge.dst_pop)) =>
              /\ Cardinality(PopulationsNamed(edge_files, name)) <= 1
              /\ Cardinality(PopulationsNamed(edge_files, ExternalName(name))) <= 1
              /\ RowsWritten(name) = RowsToExtracted(name, TRUE)
              /\ RowsWritten(ExternalName(name)) = RowsToExtracted(name, FALSE)

\* one edge population has an edge between extracted nodes, which the biological
\* population holds, and an edge from a node that is not extracted to an extracted one,
\* which the external population holds; another one has an edge to a node that is not
\* extracted, and nothing is written of it
C30_Witness ==
    /\ ExternalPhaseDone
    /\ pc = "done"
    /\ \E name \in Range(circuit.edges.keys) :
         /\ circuit.nodes[circuit.edges.val[name].src_pop].type # "virtual"
         /\ Extracted(circuit.edges.val[name].dst_pop)
         /\ RowsWritten(name) # <<>>
         /\ RowsWritten(ExternalName(name)) # <<>>
    /\ \E name \in Range(circuit.edges.keys) :
         /\ circuit.nodes[circuit.edges.val[name].src_pop].type # "virtual"
         /\ Extracted(circuit.edges.val[name].dst_pop)
         /\ Len(circuit.edges.val[name].source_node_id) > 0
         /\ RowsWritten(name) = <<>>
         /\ RowsWritten(ExternalName(name)) = <<>>

====
